---- MODULE Spec2Model ----
(***************************************************************************)
(* A model of the Netlib auto-login script, version v9 of src/login.js     *)
(* (lines 605-1221): the log channel getLoginVerdictFromLogs, the router   *)
(* gotoLoginPage and the attempt loginWithAccount.                         *)
(*                                                                         *)
(* The browser page is the environment.  Every read of the page (a         *)
(* visibility test, an attribute, the body text) is an input of the step   *)
(* that makes it, drawn from a small set; a read the code wraps in         *)
(* .catch(() => x) yields x when it fails, a call the code does not wrap   *)
(* may throw, and the exception goes where JavaScript sends it.            *)
(***************************************************************************)
EXTENDS Integers, Sequences, FiniteSets, TLC

\* ------------------------------------------------------------------ bounds

\* Longest page transcript, in lines, of the log channel checked on its own.
MaxLines == 5
\* Longest page text an attempt's log read is given, in lines.
MaxReadLines == 3
\* Most occurrences of the failure text on a page.
MaxOccs == 1
\* Visibility reads one call of waitForDisconnectedGone makes before its
\* timeout has elapsed (timeoutMs / 400 in the code).
MaxGoneIters == 2
\* Iterations of the polling loop before its 35 s window has elapsed.
MaxPollIters == 2
\* Longest text given to parseAccounts checked on its own, in characters.
MaxRawLen == 6
\* Longest identity the anchor pattern is built for, in characters.
MaxIdLen == 2
\* How far from maxLen the length of a message given to sendTelegram on its
\* own may be, in characters.
MaxExtra == 30

\* Most Validate buttons on a page, for clickValidateScoped on its own.
MaxButtons == 2

\* Most occurrences of the failure text, for hasTopInvalidBanner on its own.
MaxBannerOccs == 2

\* ------------------------------------------------------- program constants

\* hasTopInvalidBanner: occurrences above this y are top-level banners.
TopBannerY == 450

\* ------------------------------------------------------------- the page text

\* A string the program takes apart (an identity, a secret, a configuration
\* value) is a sequence of one-character strings; Str gives its text.
RECURSIVE Str(_)
Str(s) == IF s = <<>> THEN "" ELSE Head(s) \o Str(Tail(s))

\* The identities whose anchors the page's transcript may hold.
Users == {<<"a">>, <<"b">>}

\* The lines a transcript is made of.  Anchor(u) is the line
\* 'authenticate (login: u)'; the other four are the failure marker, the
\* two success markers and a line that matches nothing.
Anchor(u) == "authenticate (login: " \o Str(u) \o ")"
LineInvalid == "Error: Invalid credentials."
LineAuthd == "Authenticated to authd."
LineDns == "Authenticated to dnsmanagerd."
LineNoise == "Connecting..."

Lines == {Anchor(u) : u \in Users} \cup {LineInvalid, LineAuthd, LineDns, LineNoise}

SeqsUpTo(S, n) == UNION {[1..k -> S] : k \in 0..n}

\* The page texts an attempt may find when it reads the log channel.
Bodies == SeqsUpTo(Lines, MaxReadLines)

\* bodyText.lastIndexOf(anchor): the last line holding the anchor, 0 for -1.
LastIndexOf(bodyText, anchor) ==
  LET hits == {n \in 1..Len(bodyText) : bodyText[n] = anchor}
  IN IF hits = {} THEN 0 ELSE CHOOSE n \in hits : \A j \in hits : j <= n

\* bodyText.slice(idx)
SliceFrom(bodyText, idx) == SubSeq(bodyText, idx, Len(bodyText))

\* regex.test(tail), for the three marker patterns
TestMarker(tail, marker) == \E n \in 1..Len(tail) : tail[n] = marker

FirstIndexOf(bodyText, anchor) ==
  LET hits == {n \in 1..Len(bodyText) : bodyText[n] = anchor}
  IN IF hits = {} THEN 0 ELSE CHOOSE n \in hits : \A j \in hits : n <= j

\* getLoginVerdictFromLogs with indexOf in place of lastIndexOf.
GetLoginVerdictFirstAnchor(bodyText, user) ==
  LET idx == FirstIndexOf(bodyText, Anchor(user))
      tail == SliceFrom(bodyText, idx)
  IN IF idx = 0 THEN "NONE"
     ELSE IF TestMarker(tail, LineInvalid) THEN "FAIL_INVALID"
     ELSE IF TestMarker(tail, LineAuthd) /\ TestMarker(tail, LineDns) THEN "SUCCESS"
     ELSE "UNKNOWN"

\* getLoginVerdictFromLogs answering UNKNOWN when it finds no anchor.
GetLoginVerdictNoNone(bodyText, user) ==
  LET idx == LastIndexOf(bodyText, Anchor(user))
      tail == SliceFrom(bodyText, idx)
  IN IF idx = 0 THEN "UNKNOWN"
     ELSE IF TestMarker(tail, LineInvalid) THEN "FAIL_INVALID"
     ELSE IF TestMarker(tail, LineAuthd) /\ TestMarker(tail, LineDns) THEN "SUCCESS"
     ELSE "UNKNOWN"

\* getLoginVerdictFromLogs taking either success line for success.
GetLoginVerdictOneLine(bodyText, user) ==
  LET idx == LastIndexOf(bodyText, Anchor(user))
      tail == SliceFrom(bodyText, idx)
  IN IF idx = 0 THEN "NONE"
     ELSE IF TestMarker(tail, LineInvalid) THEN "FAIL_INVALID"
     ELSE IF TestMarker(tail, LineAuthd) \/ TestMarker(tail, LineDns) THEN "SUCCESS"
     ELSE "UNKNOWN"

\* getLoginVerdictFromLogs testing the two success lines before the failure
\* line.
GetLoginVerdictSuccessFirst(bodyText, user) ==
  LET idx == LastIndexOf(bodyText, Anchor(user))
      tail == SliceFrom(bodyText, idx)
  IN IF idx = 0 THEN "NONE"
     ELSE IF TestMarker(tail, LineAuthd) /\ TestMarker(tail, LineDns) THEN "SUCCESS"
     ELSE IF TestMarker(tail, LineInvalid) THEN "FAIL_INVALID"
     ELSE "UNKNOWN"

\* The verdict getLoginVerdictFromLogs returns for a page text.
GetLoginVerdictFromLogs(bodyText, user) ==
  LET idx == LastIndexOf(bodyText, Anchor(user))
      tail == SliceFrom(bodyText, idx)
      hasInvalid == TestMarker(tail, LineInvalid)
      hasAuthd == TestMarker(tail, LineAuthd)
      hasDns == TestMarker(tail, LineDns)
  IN IF idx = 0 THEN "NONE"
     ELSE IF hasInvalid THEN "FAIL_INVALID"
     ELSE IF hasAuthd /\ hasDns THEN "SUCCESS"
     ELSE "UNKNOWN"

\* ------------------------------------------------------ the other channels

\* Math.min's start value in hasTopInvalidBanner.
Infinity == 1000000

\* The y of a bounding box.
Ys == {449, 450, 600}

\* One occurrence of the text 'Invalid credentials' on the page: whether it
\* is visible, whether boundingBox() gives a box (not null, no failure), and
\* the box's y.
Occs == [visible : BOOLEAN, hasBox : BOOLEAN, y : Ys]

\* What hasTopInvalidBanner reads: whether an alert-class container with the
\* text is visible, and the occurrences of the text in document order.
BannerPages == [alert : BOOLEAN, occs : SeqsUpTo(Occs, MaxOccs)]

Min(a, b) == IF a < b THEN a ELSE b

\* The loop of hasTopInvalidBanner from occurrence i on.
RECURSIVE MinYFrom(_, _, _)
MinYFrom(occs, n, minY) ==
  IF n > Len(occs) THEN minY
  ELSE IF ~occs[n].visible \/ ~occs[n].hasBox THEN MinYFrom(occs, n + 1, minY)
  ELSE MinYFrom(occs, n + 1, Min(minY, occs[n].y))

\* hasTopInvalidBanner taking any visible occurrence for a banner.
HasTopInvalidBannerAnyY(bp) ==
  bp.alert \/ \E k \in 1..Len(bp.occs) : bp.occs[k].visible

HasTopInvalidBanner(bp) ==
  IF bp.alert THEN TRUE ELSE MinYFrom(bp.occs, 1, Infinity) < TopBannerY

GetSuccessSignalsUI(hasMyDomains, hasOwnerText) ==
  [hasMyDomains |-> hasMyDomains, hasOwnerText |-> hasOwnerText,
   success |-> hasMyDomains \/ hasOwnerText]

\* ------------------------------------------------------------ the decision

Statuses == {"SUCCESS", "FAIL_INVALID", "FAIL_UNKNOWN", "ERROR"}

\* The decision with success evidence looked at before failure evidence.
DecideSuccessFirst(ev) ==
  IF ev.uiMyDomains \/ ev.uiOwnerText \/ ev.logsVerdict = "SUCCESS"
  THEN [status |-> "SUCCESS", success |-> TRUE,
        reason |-> IF ev.uiMyDomains \/ ev.uiOwnerText
                   THEN (IF ev.uiMyDomains THEN "ui: My domains" ELSE "ui: exclusive owner")
                   ELSE "logs: authd + dnsmanagerd"]
  ELSE IF ev.topInvalid \/ ev.logsVerdict = "FAIL_INVALID"
  THEN [status |-> "FAIL_INVALID", success |-> FALSE,
        reason |-> IF ev.topInvalid THEN "ui: top Invalid credentials"
                   ELSE "logs: Error: Invalid credentials"]
  ELSE [status |-> "FAIL_UNKNOWN", success |-> FALSE,
        reason |-> IF ev.disconnected THEN "unknown: still disconnected"
                   ELSE "unknown: no decisive signal"]

\* The decision without the log-success branch.
DecideNoLogSuccess(ev) ==
  IF ev.topInvalid \/ ev.logsVerdict = "FAIL_INVALID"
  THEN [status |-> "FAIL_INVALID", success |-> FALSE,
        reason |-> IF ev.topInvalid THEN "ui: top Invalid credentials"
                   ELSE "logs: Error: Invalid credentials"]
  ELSE IF ev.uiMyDomains \/ ev.uiOwnerText
  THEN [status |-> "SUCCESS", success |-> TRUE,
        reason |-> IF ev.uiMyDomains THEN "ui: My domains" ELSE "ui: exclusive owner"]
  ELSE [status |-> "FAIL_UNKNOWN", success |-> FALSE,
        reason |-> IF ev.disconnected THEN "unknown: still disconnected"
                   ELSE "unknown: no decisive signal"]

\* The decision with one reason for every FAIL_UNKNOWN.
DecideOneUnknownReason(ev) ==
  IF ev.topInvalid \/ ev.logsVerdict = "FAIL_INVALID"
  THEN [status |-> "FAIL_INVALID", success |-> FALSE,
        reason |-> IF ev.topInvalid THEN "ui: top Invalid credentials"
                   ELSE "logs: Error: Invalid credentials"]
  ELSE IF ev.uiMyDomains \/ ev.uiOwnerText \/ ev.logsVerdict = "SUCCESS"
  THEN [status |-> "SUCCESS", success |-> TRUE,
        reason |-> IF ev.uiMyDomains \/ ev.uiOwnerText
                   THEN (IF ev.uiMyDomains THEN "ui: My domains" ELSE "ui: exclusive owner")
                   ELSE "logs: authd + dnsmanagerd"]
  ELSE [status |-> "FAIL_UNKNOWN", success |-> FALSE,
        reason |-> "unknown: no decisive signal"]

\* The decision with the success flag set from the UI indicators alone.
DecideFlagFromUI(ev) ==
  IF ev.topInvalid \/ ev.logsVerdict = "FAIL_INVALID"
  THEN [status |-> "FAIL_INVALID", success |-> ev.uiMyDomains \/ ev.uiOwnerText,
        reason |-> IF ev.topInvalid THEN "ui: top Invalid credentials"
                   ELSE "logs: Error: Invalid credentials"]
  ELSE IF ev.uiMyDomains \/ ev.uiOwnerText \/ ev.logsVerdict = "SUCCESS"
  THEN [status |-> "SUCCESS", success |-> ev.uiMyDomains \/ ev.uiOwnerText,
        reason |-> IF ev.uiMyDomains \/ ev.uiOwnerText
                   THEN (IF ev.uiMyDomains THEN "ui: My domains" ELSE "ui: exclusive owner")
                   ELSE "logs: authd + dnsmanagerd"]
  ELSE [status |-> "FAIL_UNKNOWN", success |-> FALSE,
        reason |-> IF ev.disconnected THEN "unknown: still disconnected"
                   ELSE "unknown: no decisive signal"]


\* The three-way decision that ends loginWithAccount, from the evidence the
\* final sample wrote; the reasons stand for the script's reason strings.
Decide(ev) ==
  IF ev.topInvalid \/ ev.logsVerdict = "FAIL_INVALID"
  THEN [status |-> "FAIL_INVALID", success |-> FALSE,
        reason |-> IF ev.topInvalid THEN "ui: top Invalid credentials"
                   ELSE "logs: Error: Invalid credentials"]
  ELSE IF ev.uiMyDomains \/ ev.uiOwnerText \/ ev.logsVerdict = "SUCCESS"
  THEN [status |-> "SUCCESS", success |-> TRUE,
        reason |-> IF ev.uiMyDomains \/ ev.uiOwnerText
                   THEN (IF ev.uiMyDomains THEN "ui: My domains" ELSE "ui: exclusive owner")
                   ELSE "logs: authd + dnsmanagerd"]
  ELSE [status |-> "FAIL_UNKNOWN", success |-> FALSE,
        reason |-> IF ev.disconnected THEN "unknown: still disconnected"
                   ELSE "unknown: no decisive signal"]

\* ---------------------------------------------------------------- routing

\* An href attribute: missing, a pure fragment ('#/login'), a server path
\* ('/auth'), or a server path that carries a fragment ('/auth#login').
HrefNone == ""
HrefFrag == "#/login"
HrefPath == "/auth"
HrefPathFrag == "/auth#login"
Hrefs == {HrefNone, HrefFrag, HrefPath, HrefPathFrag}

\* href && href.includes('#')
IncludesHash(href) == href \in {HrefFrag, HrefPathFrag}

\* The guard written as a test for a non-empty href only.
HrefPresent(href) == href # HrefNone

\* The guard on a link's href before gotoLoginPage clicks the link.
MayClick(href) == href # HrefNone /\ IncludesHash(href)

\* Where the page is: not loaded yet, at the origin root, at the origin root
\* with a fragment, or at a server path of the origin.
UrlBlank == "about:blank"
UrlRoot == "origin/"
UrlRootFrag == "origin/#fragment"
UrlPath == "origin/path"
Urls == {UrlBlank, UrlRoot, UrlRootFrag, UrlPath}

\* window.location.hash = h: the fragment changes, the document stays.
WithHash(u) == IF u = UrlRoot THEN UrlRootFrag ELSE u

\* The page's URL after a click on a link with this href.
ClickTarget(u, href) ==
  IF href = HrefFrag THEN WithHash(u)
  ELSE IF href \in {HrefPath, HrefPathFrag} THEN UrlPath
  ELSE u

\* The route aliases gotoLoginPage tries, in order.
hashes == <<"#/authentication", "#/login", "#/auth", "#/authentication/">>

\* ------------------------------------------------------------ credentials

NL == "\n"

\* The characters String.prototype.trim strips, among those texts are made of.
IsSpace(c) == c \in {" ", NL}

RECURSIVE TrimLeft(_)
TrimLeft(s) == IF s # <<>> /\ IsSpace(Head(s)) THEN TrimLeft(Tail(s)) ELSE s

RECURSIVE TrimRight(_)
TrimRight(s) ==
  IF s # <<>> /\ IsSpace(s[Len(s)]) THEN TrimRight(SubSeq(s, 1, Len(s) - 1)) ELSE s

\* s.trim()
Trim(s) == TrimRight(TrimLeft(s))

\* s.split(sep), for a separator that matches any one character of seps.
RECURSIVE SplitFrom(_, _, _, _)
SplitFrom(s, seps, k, cur) ==
  IF k > Len(s) THEN <<cur>>
  ELSE IF s[k] \in seps THEN <<cur>> \o SplitFrom(s, seps, k + 1, <<>>)
  ELSE SplitFrom(s, seps, k + 1, Append(cur, s[k]))

Split(s, seps) == SplitFrom(s, seps, 1, <<>>)

\* item.indexOf(':'), from 1; 0 for -1.
IndexOfColon(item) ==
  LET hits == {k \in 1..Len(item) : item[k] = ":"}
  IN IF hits = {} THEN 0 ELSE CHOOSE k \in hits : \A j \in hits : k <= j

\* .map(s => s.trim()).filter(Boolean)
TrimItems(pieces) ==
  SelectSeq([k \in 1..Len(pieces) |-> Trim(pieces[k])], LAMBDA x : x # <<>>)

\* The loop of parseAccounts over the items, lines 694-701.
RECURSIVE RecordsFrom(_, _)
RecordsFrom(items, k) ==
  IF k > Len(items) THEN <<>>
  ELSE LET item == items[k]
           idx == IndexOfColon(item)
           u == Trim(SubSeq(item, 1, idx - 1))
           pass == SubSeq(item, idx + 1, Len(item))
       IN IF idx = 0 THEN RecordsFrom(items, k + 1)
          ELSE IF u # <<>> /\ pass # <<>>
          THEN <<[user |-> u, pass |-> pass]>> \o RecordsFrom(items, k + 1)
          ELSE RecordsFrom(items, k + 1)

\* parseAccounts, lines 676-703.  The texts here hold no carriage return,
\* so the newline pattern /\r?\n/ is the newline character.
ParseAccounts(rawText) ==
  LET trimmed == Trim(rawText)
      hasNewline == \E k \in 1..Len(trimmed) : trimmed[k] = NL
      items == IF hasNewline THEN TrimItems(Split(trimmed, {NL}))
                             ELSE TrimItems(Split(trimmed, {",", ";"}))
  IN IF trimmed = <<>> THEN <<>> ELSE RecordsFrom(items, 1)

\* process.env.ACCOUNTS_JSON, by what JSON.parse makes of it: not set, not
\* JSON (JSON.parse throws), a value that is no array, or an array whose
\* elements carry a user and a pass (empty when the field is missing).
JsonUnset == [kind |-> "unset", items |-> <<>>]
JsonInvalid == [kind |-> "invalid", items |-> <<>>]
JsonNotArray == [kind |-> "notArray", items |-> <<>>]
JsonArray(items) == [kind |-> "array", items |-> items]

\* parseAccountsJson without its filter.
ParseAccountsJsonNoFilter(json) ==
  IF json.kind # "array" THEN <<>>
  ELSE [k \in 1..Len(json.items) |->
          [user |-> Trim(json.items[k].user), pass |-> json.items[k].pass]]

\* parseAccountsJson, lines 660-669, on the parsed value.
ParseAccountsJson(json) ==
  IF json.kind # "array" THEN <<>>
  ELSE SelectSeq([k \in 1..Len(json.items) |->
                    [user |-> Trim(json.items[k].user), pass |-> json.items[k].pass]],
                 LAMBDA x : x.user # <<>> /\ x.pass # <<>>)

\* ------------------------------------------------------ the submit control

\* clickValidateScoped: the control clicked, by scope.
ClickValidateScoped(formBtn, panelBtn) ==
  IF formBtn THEN "form->Validate"
  ELSE IF panelBtn THEN "panel->Validate"
  ELSE "global->Validate"

\* ------------------------------------------------------------- sendTelegram

maxLen == 3800

\* '\n\n...(truncated)'
TruncMarker ==
  <<NL, NL, ".", ".", ".", "(", "t", "r", "u", "n", "c", "a", "t", "e", "d", ")">>

\* message.slice(0, n)
SliceTo(s, n) == SubSeq(s, 1, IF n < Len(s) THEN n ELSE Len(s))

\* The text with the cut made from maxLen characters on.
TruncateTextFrom(msg) ==
  IF Len(msg) >= maxLen THEN SliceTo(msg, maxLen) \o TruncMarker ELSE msg

\* Line 756: the text posted for a message.
TruncateText(msg) ==
  IF Len(msg) > maxLen THEN SliceTo(msg, maxLen) \o TruncMarker ELSE msg

\* The statuses the summary line reports a tally for.
SummaryStatuses == {"SUCCESS", "FAIL_INVALID", "FAIL_UNKNOWN", "ERROR"}

\* The tallies with the attempts that ended in ERROR left out.
CountsNoError(rs) ==
  [s \in SummaryStatuses |->
     IF s = "ERROR" THEN 0 ELSE Cardinality({k \in 1..Len(rs) : rs[k].status = s})]

\* Lines 1196-1199 and 1207: the tally of the results by status, as the
\* summary line reports it.
Counts(rs) ==
  [s \in SummaryStatuses |-> Cardinality({k \in 1..Len(rs) : rs[k].status = s})]

\* How a call of sendTelegram ends: it returns at once when the token or the
\* chat id is not set; otherwise it posts, and a post that fails is logged.
SendTelegram(hasToken, hasChatId, postOk) ==
  IF ~hasToken \/ ~hasChatId THEN "no target"
  ELSE IF postOk THEN "sent"
  ELSE "post failed"

\* ------------------------------------------------------ the anchor pattern

\* The characters identities are made of here: two letters that differ in
\* case only, and three characters with a meaning in pattern syntax.
IdChars == {"a", "A", ".", "(", "+"}

\* The regular expression of line 1058, after its fixed head
\* 'authenticate \(login:': the space, the identity as it stands, and the
\* escaped ')'.  An atom is a character or '.', once or ('+') once or more.
\* ok is false when the RegExp constructor throws a SyntaxError: a '(' opens
\* a group that nothing closes, a '+' has no atom left to repeat.
RECURSIVE CompileFrom(_, _, _)
CompileFrom(u, k, atoms) ==
  IF k > Len(u)
  THEN [ok |-> TRUE, atoms |-> Append(atoms, [ch |-> ")", any |-> FALSE, plus |-> FALSE])]
  ELSE IF u[k] = "(" THEN [ok |-> FALSE, atoms |-> <<>>]
  ELSE IF u[k] = "+"
  THEN IF atoms[Len(atoms)].plus THEN [ok |-> FALSE, atoms |-> <<>>]
       ELSE CompileFrom(u, k + 1, [atoms EXCEPT ![Len(atoms)].plus = TRUE])
  ELSE CompileFrom(u, k + 1,
                   Append(atoms, [ch |-> u[k], any |-> u[k] = ".", plus |-> FALSE]))

\* new RegExp(`authenticate \\(login: ${user}\\)`, 'i')
AnchorRegExp(u) ==
  CompileFrom(u, 1, <<[ch |-> " ", any |-> FALSE, plus |-> FALSE]>>)

\* The 'i' flag: letters are compared without regard to case.
Lower(c) == IF c = "A" THEN "a" ELSE c

AtomMatches(atom, c) == atom.any \/ Lower(atom.ch) = Lower(c)

\* Whether the atoms from k on match the text from j on (the pattern is not
\* anchored at its end).
RECURSIVE MatchFrom(_, _, _, _)
MatchFrom(atoms, k, text, j) ==
  IF k > Len(atoms) THEN TRUE
  ELSE IF j > Len(text) THEN FALSE
  ELSE IF ~AtomMatches(atoms[k], text[j]) THEN FALSE
  ELSE \/ MatchFrom(atoms, k + 1, text, j + 1)
       \/ atoms[k].plus /\ MatchFrom(atoms, k, text, j + 1)

\* Whether the pattern built for u matches the line 'authenticate (login: y)':
\* the fixed head occurs in the line once, at its start.
MatchesAnchorLine(u, y) ==
  LET re == AnchorRegExp(u)
  IN re.ok /\ MatchFrom(re.atoms, 1, <<" ">> \o y \o <<")">>, 1)

\* The identities an attempt is made for: those of the transcript and one
\* with a character of pattern syntax.
Identities == Users \cup {<<"(">>}

\* ------------------------------------------------------------------ state

VARIABLES
  pc,         \* where loginWithAccount is; "returned" and "threw" end it
  user,       \* the credential's identity
  loginHref,  \* gotoLoginPage: the href attribute of the Login link, once read
  open,       \* which of browser, context and page are open
  result,     \* the result object: status, success, reason, evidence
  assigns,    \* how many times result.status has been assigned
  readyRet,   \* what waitForHomeReady returned: "true" or "false", once it has
  navOk,      \* nav.ok, what gotoLoginPage returned: "true" or "false", once it has
  url,        \* where the page is
  hashIdx,    \* gotoLoginPage: index into hashes of the alias being tried
  goneFrom,   \* waitForDisconnectedGone: who called it
  goneIter,   \* waitForDisconnectedGone: visibility reads made so far
  pollIter,   \* the polling loop: iterations completed
  filled,     \* the inputs filled so far
  submitted,  \* whether a Validate control has been clicked
  loginClicked, \* this call of gotoLoginPage: whether it clicked the Login link
  authClicked,  \* this call: the href of each Authentication link it clicked
  authHref,   \* this call: the href read off the Authentication link, if one showed
  offRoot,    \* this call: whether it took the page to a server path
  inputSeen,  \* this call: whether a route alias showed the username input
  overlay,    \* since the submit: what the reads of the disconnect overlay found
  windowElapsed, \* whether the polling loop ended because its window elapsed
  exc,        \* the exception on its way to the catch block, if one was thrown
  pollObs,    \* the polling loop: what the latest iteration's sample found
  initScripts, \* the init scripts registered on the attempt's page
  storage,    \* the local and session storage of the browser context in use
  doc,        \* the latest document loaded: the storage its own scripts found
  body,       \* log channel on its own: the page's text, append-only
  logs,       \* log channel on its own: the last call's input and verdict
  accountsJsonRaw, \* process.env.ACCOUNTS_JSON
  accountsRaw,     \* process.env.ACCOUNTS
  accountList,     \* the credentials getAccountList resolved
  mainPc,     \* where the process is: module load, main's loop, the summary, the end
  i,          \* main: the loop index, from 1
  results,    \* main: the user and the status of each result pushed, in order
  exitCode,   \* the process's exit code, once it has ended
  notified,   \* how the call of sendTelegram ended, once it was made
  counts,     \* main: the tallies by status written into the summary
  raw,        \* parseAccounts on its own: the text given
  parsed,     \* parseAccounts on its own: the list returned
  identity,   \* the anchor pattern on its own: the identity it is built for
  lineId,     \* the anchor pattern on its own: the identity an anchor line names
  anchorTest, \* the anchor pattern on its own: the outcome of build and match
  bannerPage, \* hasTopInvalidBanner on its own: the page read
  bannerRet,  \* hasTopInvalidBanner on its own: the value returned
  message,    \* sendTelegram on its own: the message given
  text,       \* sendTelegram on its own: the text posted
  samplePage, \* the evidence sample on its own: the page as it stands
  snap,       \* the evidence sample on its own: the latest sample
  prevSnap,   \* the evidence sample on its own: the sample before it, when the
              \* page has not changed between the two
  changed,    \* the evidence sample on its own: the page changed since the latest sample
  clickPage,  \* clickValidateScoped on its own: the page around the username input
  clickRet,   \* clickValidateScoped on its own: the control clicked, or that it threw
  scriptPc,   \* the single-credential script: where it is
  browser,    \* the single-credential script: the browser's state
  username,   \* the single-credential script: whether USERNAME is set
  password,   \* the single-credential script: whether PASSWORD is set
  content,    \* the single-credential script: the fingerprints in page.content()
  currentUrl, \* the single-credential script: whether page.url() holds '/login'
  scriptExit  \* the single-credential script: the exit code, once the process has ended

attemptVars ==
  <<pc, user, loginHref, open, result, assigns, readyRet, navOk, url, hashIdx,
    goneFrom, goneIter, pollIter, filled, submitted, loginClicked, authClicked,
    authHref, offRoot, inputSeen, overlay, windowElapsed, exc, pollObs,
    initScripts, storage, doc>>
logVars == <<body, logs>>
runVars ==
  <<accountsJsonRaw, accountsRaw, accountList, mainPc, i, results, exitCode, notified,
    counts>>
tgVars == <<message, text>>
sampleVars == <<samplePage, snap, prevSnap, changed>>
clickVars == <<clickPage, clickRet>>
singleVars == <<scriptPc, browser, username, password, content, currentUrl, scriptExit>>
fnVars ==
  <<raw, parsed, identity, lineId, anchorTest, bannerPage, bannerRet, tgVars, sampleVars,
    clickVars, singleVars>>
vars == <<attemptVars, logVars, runVars, fnVars>>

Unset == "unset"

\* A JavaScript boolean kept in a variable that starts unset.
Bool(b) == IF b THEN "true" ELSE "false"
NoCall == "no call yet"
NoExc == "none"
NotCalled == "not called"

\* No document has been loaded in the page.
NoDoc == [loaded |-> FALSE, storage |-> {}]

\* A document is loaded in a page: the page's init scripts run before the
\* document's own scripts, which then find the storage and write to it.
LoadDocument(scripts, st) ==
  LET found == IF "clearStorage" \in scripts THEN {} ELSE st
  IN [doc |-> [loaded |-> TRUE, storage |-> found], storage |-> found \cup {"visit"}]

\* The locals of the polling loop's body outside the loop: whether an
\* iteration has sampled, its topInvalid, ui.success and hasAnchor, and the
\* state of the page's log stream at that moment (which the loop does not read).
NoPollObs ==
  [sampled |-> FALSE, topInvalid |-> FALSE, uiSuccess |-> FALSE, hasAnchor |-> FALSE,
   logs |-> "NONE"]

\* lines 961-978
InitResult ==
  [status |-> "INIT", success |-> FALSE, reason |-> "",
   evidence |-> [disconnected |-> FALSE, topInvalid |-> FALSE, uiMyDomains |-> FALSE,
                 uiOwnerText |-> FALSE, logsVerdict |-> "NONE"]]

\* The state of loginWithAccount's locals before the call has done anything.
InitLocals ==
  /\ loginHref = Unset
  /\ open = {}
  /\ result = InitResult
  /\ assigns = 0
  /\ readyRet = Unset
  /\ navOk = Unset
  /\ url = UrlBlank
  /\ hashIdx = 0
  /\ goneFrom = Unset
  /\ goneIter = 0
  /\ pollIter = 0
  /\ filled = {}
  /\ submitted = FALSE
  /\ loginClicked = FALSE
  /\ authClicked = {}
  /\ authHref = Unset
  /\ offRoot = FALSE
  /\ inputSeen = FALSE
  /\ overlay = Unset
  /\ windowElapsed = FALSE
  /\ exc = NoExc
  /\ pollObs = NoPollObs
  /\ initScripts = {}
  /\ storage = {}
  /\ doc = NoDoc

\* loginWithAccount(user, pass) has just been called.
InitAttempt ==
  /\ pc = "launch"
  /\ user \in Identities
  /\ InitLocals

InitLogs ==
  /\ body = <<>>
  /\ logs = [bodyText |-> <<>>, user |-> <<"a">>, verdict |-> NoCall]

\* The process around one attempt: ACCOUNTS holds the one credential of the
\* attempt, and main is waiting for loginWithAccount.
InitRun ==
  /\ accountsJsonRaw = JsonUnset
  /\ accountsRaw = user \o <<":", "p">>
  /\ accountList = <<[user |-> user, pass |-> <<"p">>]>>
  /\ mainPc = "attempt"
  /\ i = 1
  /\ results = <<>>
  /\ exitCode = Unset
  /\ notified = NotCalled
  /\ counts = Counts(<<>>)

NotParsed == [called |-> FALSE, list |-> <<>>]
NotTested == [called |-> FALSE, built |-> FALSE, matches |-> FALSE]

InitParseFn == raw = <<>> /\ parsed = NotParsed
InitAnchorFn == identity = <<"a">> /\ lineId = <<"a">> /\ anchorTest = NotTested
InitBannerFn == bannerPage = [alert |-> FALSE, occs |-> <<>>] /\ bannerRet = Unset
InitTelegramFn == message = <<>> /\ text = <<>>

\* No sample taken: the evidence as the result object is constructed with.
NoSnap ==
  [taken |-> FALSE, disconnected |-> FALSE, topInvalid |-> FALSE, uiMyDomains |-> FALSE,
   uiOwnerText |-> FALSE, logsVerdict |-> "NONE"]

\* A page with nothing on it.
BlankPage ==
  [overlay |-> FALSE, banner |-> [alert |-> FALSE, occs |-> <<>>], myDomains |-> FALSE,
   ownerText |-> FALSE, bodyText |-> <<>>]

InitSampleFn ==
  /\ samplePage = BlankPage
  /\ snap = NoSnap
  /\ prevSnap = NoSnap
  /\ changed = FALSE

\* A login view with no form, no panel and no Validate button.
NoClickPage ==
  [form |-> "none", formBtn |-> FALSE, panel |-> FALSE, panelBtn |-> FALSE, globalBtns |-> 0]

InitClickFn == clickPage = NoClickPage /\ clickRet = Unset

\* The fingerprints of a page with none of the texts looked for.
NoContent == [cloudflare |-> FALSE, authError |-> FALSE, success |-> FALSE]

\* The single-credential script has not been started.
InitSingleFn ==
  /\ scriptPc = "idle"
  /\ browser = "none"
  /\ username = FALSE
  /\ password = FALSE
  /\ content = NoContent
  /\ currentUrl = FALSE
  /\ scriptExit = Unset

InitFns ==
  /\ InitParseFn /\ InitAnchorFn /\ InitBannerFn /\ InitTelegramFn /\ InitSampleFn
  /\ InitClickFn /\ InitSingleFn

Init == InitAttempt /\ InitLogs /\ InitRun /\ InitFns

\* --------------------------------------- the log channel on its own (SpecLogs)

\* The page appends one line to the transcript.
AppendLine ==
  /\ Len(body) < MaxLines
  /\ \E l \in Lines : body' = Append(body, l)
  /\ UNCHANGED <<logs, attemptVars, runVars, fnVars>>

\* A call getLoginVerdictFromLogs(page, user): page.evaluate gives the body
\* text, and the call returns the verdict for it.
ReadLogs ==
  /\ logs' = [bodyText |-> body, user |-> user,
              verdict |-> GetLoginVerdictFromLogs(body, user)]
  /\ UNCHANGED <<body, attemptVars, runVars, fnVars>>

NextLogs == AppendLine \/ ReadLogs

\* The log channel on its own: no attempt runs, the page's text grows and
\* the channel is read at any time.
InitLogsOnly == Init /\ user = <<"a">>

SpecLogs == InitLogsOnly /\ [][NextLogs]_vars

\* ------------------------------------ parseAccounts on its own (SpecParse)

ParseChars == {"u", ":", " ", ",", NL}
RawTexts == SeqsUpTo(ParseChars, MaxRawLen)

\* A call parseAccounts(raw).
ParseCall ==
  /\ parsed' = [called |-> TRUE, list |-> ParseAccounts(raw)]
  /\ UNCHANGED <<raw, identity, lineId, anchorTest, bannerPage, bannerRet,
                 tgVars, sampleVars, clickVars, singleVars, attemptVars, logVars, runVars>>

InitParse ==
  /\ InitAttempt /\ user = <<"a">> /\ InitLogs /\ InitRun
  /\ raw \in RawTexts /\ parsed = NotParsed
  /\ InitAnchorFn /\ InitBannerFn /\ InitTelegramFn /\ InitSampleFn
  /\ InitClickFn /\ InitSingleFn

SpecParse == InitParse /\ [][ParseCall]_vars

\* ------------------------------- the anchor pattern on its own (SpecAnchor)

Ids == SeqsUpTo(IdChars, MaxIdLen) \ {<<>>}

\* Line 1058 for the identity, and the test of the pattern against the
\* anchor line that names lineId.
AnchorTest ==
  /\ anchorTest' = [called |-> TRUE, built |-> AnchorRegExp(identity).ok,
                    matches |-> MatchesAnchorLine(identity, lineId)]
  /\ UNCHANGED <<raw, parsed, identity, lineId, bannerPage, bannerRet,
                 tgVars, sampleVars, clickVars, singleVars, attemptVars, logVars, runVars>>

InitAnchor ==
  /\ InitAttempt /\ user = <<"a">> /\ InitLogs /\ InitRun
  /\ identity \in Ids /\ lineId \in Ids /\ anchorTest = NotTested
  /\ InitParseFn /\ InitBannerFn /\ InitTelegramFn /\ InitSampleFn
  /\ InitClickFn /\ InitSingleFn

SpecAnchor == InitAnchor /\ [][AnchorTest]_vars

\* ------------------------------ hasTopInvalidBanner on its own (SpecBanner)

\* A call hasTopInvalidBanner(page): loc.count() is not wrapped, so the call
\* throws when it fails; the alert test comes first and returns before it.
BannerCall ==
  /\ \E countOk \in BOOLEAN :
       bannerRet' = IF ~bannerPage.alert /\ ~countOk THEN "threw"
                    ELSE Bool(HasTopInvalidBanner(bannerPage))
  /\ UNCHANGED <<raw, parsed, identity, lineId, anchorTest, bannerPage,
                 tgVars, sampleVars, clickVars, singleVars, attemptVars, logVars, runVars>>

InitBanner ==
  /\ InitAttempt /\ user = <<"a">> /\ InitLogs /\ InitRun
  /\ bannerPage \in [alert : BOOLEAN, occs : SeqsUpTo(Occs, MaxBannerOccs)]
  /\ bannerRet = Unset
  /\ InitParseFn /\ InitAnchorFn /\ InitTelegramFn /\ InitSampleFn
  /\ InitClickFn /\ InitSingleFn

SpecBanner == InitBanner /\ [][BannerCall]_vars

\* ----------------------------------- sendTelegram on its own (SpecTelegram)

\* A message of n characters, with one character that tells where it sits.
MessageOf(n, mark) == [k \in 1..n |-> IF k = mark THEN "#" ELSE "x"]

\* Messages about as long as maxLen, the marked character at the start, on
\* either side of the cut, or at the end.
Messages ==
  {MessageOf(n, mark) : n \in (maxLen - MaxExtra)..(maxLen + MaxExtra),
                        mark \in {1, maxLen, maxLen + 1, maxLen + MaxExtra}}

\* A call sendTelegram(message), lines 752-768.
SendTelegramCall ==
  /\ notified = NotCalled
  /\ \E hasToken, hasChatId, postOk \in BOOLEAN :
       /\ notified' = SendTelegram(hasToken, hasChatId, postOk)
       /\ text' = IF notified' = "no target" THEN text ELSE TruncateText(message)
  /\ UNCHANGED <<message, accountsJsonRaw, accountsRaw, accountList, mainPc, i,
                 results, exitCode, counts, raw, parsed, identity, lineId, anchorTest,
                 bannerPage, bannerRet, sampleVars, clickVars, singleVars, attemptVars, logVars>>

InitTelegram ==
  /\ InitAttempt /\ user = <<"a">> /\ InitLogs /\ InitRun
  /\ message \in Messages /\ text = <<>>
  /\ InitParseFn /\ InitAnchorFn /\ InitBannerFn /\ InitSampleFn
  /\ InitClickFn /\ InitSingleFn

SpecTelegram == InitTelegram /\ [][SendTelegramCall]_vars

\* ------------------------------- the evidence sample on its own (SpecSample)

\* What the banner channel may find on the page: nothing, an alert container,
\* the text near the top, the text in the log panel.
SampleBanners ==
  { [alert |-> FALSE, occs |-> <<>>],
    [alert |-> TRUE, occs |-> <<>>],
    [alert |-> FALSE, occs |-> <<[visible |-> TRUE, hasBox |-> TRUE, y |-> 449]>>],
    [alert |-> FALSE, occs |-> <<[visible |-> TRUE, hasBox |-> TRUE, y |-> 600]>>] }

\* The log stream: empty, the anchor alone, the anchor and a failure, the
\* anchor and both success lines.
SampleBodies ==
  { <<>>,
    <<Anchor(<<"a">>)>>,
    <<Anchor(<<"a">>), LineInvalid>>,
    <<Anchor(<<"a">>), LineAuthd, LineDns>> }

SamplePages ==
  [overlay : BOOLEAN, banner : SampleBanners, myDomains : BOOLEAN, ownerText : BOOLEAN,
   bodyText : SampleBodies]

\* isDisconnected with a click that dismisses the overlay it has found.
IsDisconnectedCallsDismiss == <<"isVisible", "click">>

\* The driver calls each channel makes on the page, in order.
IsDisconnectedCalls == <<"isVisible">>
HasTopInvalidBannerCalls == <<"isVisible", "count", "isVisible", "boundingBox">>
GetSuccessSignalsUICalls == <<"isVisible", "isVisible">>
GetLoginVerdictFromLogsCalls == <<"evaluate">>

\* The page after a driver call: a click on the overlay takes it away, a
\* navigation or a reload loads the page anew, and a visibility test, a
\* count, a bounding box or the evaluation of innerText leaves the page as
\* it is.
AfterCall(pg, call) ==
  IF call = "click" THEN [pg EXCEPT !.overlay = FALSE]
  ELSE IF call \in {"goto", "reload"} THEN BlankPage
  ELSE pg

RECURSIVE AfterCalls(_, _)
AfterCalls(pg, calls) ==
  IF calls = <<>> THEN pg ELSE AfterCalls(AfterCall(pg, Head(calls)), Tail(calls))

\* The final sample, lines 1077-1085, read off the page channel by channel;
\* page is the page once the four channels have made their calls.
Sample(pg, u) ==
  LET p1 == AfterCalls(pg, IsDisconnectedCalls)
      p2 == AfterCalls(p1, HasTopInvalidBannerCalls)
      p3 == AfterCalls(p2, GetSuccessSignalsUICalls)
      p4 == AfterCalls(p3, GetLoginVerdictFromLogsCalls)
      ui == GetSuccessSignalsUI(p2.myDomains, p2.ownerText)
  IN [page |-> p4,
      snap |-> [taken |-> TRUE,
                disconnected |-> pg.overlay,
                topInvalid |-> HasTopInvalidBanner(p1.banner),
                uiMyDomains |-> ui.hasMyDomains,
                uiOwnerText |-> ui.hasOwnerText,
                logsVerdict |-> GetLoginVerdictFromLogs(p3.bodyText, u)]]

\* One sample of the evidence is taken.
TakeSample ==
  /\ samplePage' = Sample(samplePage, user).page
  /\ snap' = Sample(samplePage, user).snap
  /\ prevSnap' = IF changed THEN NoSnap ELSE snap
  /\ changed' = FALSE
  /\ UNCHANGED <<raw, parsed, identity, lineId, anchorTest, bannerPage, bannerRet,
                 tgVars, clickVars, singleVars, attemptVars, logVars, runVars>>

\* The site changes the page.
PageChanges ==
  /\ \E pg \in SamplePages : pg # samplePage /\ samplePage' = pg
  /\ changed' = TRUE
  /\ UNCHANGED <<snap, prevSnap, raw, parsed, identity, lineId, anchorTest, bannerPage,
                 bannerRet, tgVars, clickVars, singleVars, attemptVars, logVars, runVars>>

NextSample == TakeSample \/ PageChanges

InitSample ==
  /\ InitAttempt /\ user = <<"a">> /\ InitLogs /\ InitRun
  /\ samplePage \in SamplePages /\ snap = NoSnap /\ prevSnap = NoSnap /\ changed = FALSE
  /\ InitParseFn /\ InitAnchorFn /\ InitBannerFn /\ InitTelegramFn
  /\ InitClickFn /\ InitSingleFn

SpecSample == InitSample /\ [][NextSample]_vars

\* ------------------------------- clickValidateScoped on its own (SpecClick)

\* The login view as clickValidateScoped finds it: the nearest form around
\* the username input (none, one without the password input, one with it)
\* and whether a Validate button is visible in it; whether a div, section or
\* main around the username input holds the password input, and whether a
\* Validate button is visible in it; the Validate buttons on the whole page.
ClickPages ==
  [form : {"none", "user only", "both"}, formBtn : BOOLEAN, panel : BOOLEAN,
   panelBtn : BOOLEAN, globalBtns : 0..MaxButtons]

\* A call clickValidateScoped(page), lines 919-944: form.count() and
\* panel.count() that fail give 0, a click may time out, and the page-wide
\* click has nothing to click when the page holds no Validate button.
ClickCall ==
  /\ clickRet = Unset
  /\ \E formCountOk, panelCountOk, clickOk \in BOOLEAN :
       LET formBtn == formCountOk /\ clickPage.form # "none" /\ clickPage.formBtn
           panelBtn == panelCountOk /\ clickPage.panel /\ clickPage.panelBtn
           used == ClickValidateScoped(formBtn, panelBtn)
       IN clickRet' = IF ~clickOk \/ (used = "global->Validate" /\ clickPage.globalBtns = 0)
                      THEN "threw"
                      ELSE used
  /\ UNCHANGED <<clickPage, raw, parsed, identity, lineId, anchorTest, bannerPage,
                 bannerRet, tgVars, sampleVars, singleVars, attemptVars, logVars, runVars>>

InitClick ==
  /\ InitAttempt /\ user = <<"a">> /\ InitLogs /\ InitRun
  /\ clickPage \in ClickPages /\ clickRet = Unset
  /\ InitParseFn /\ InitAnchorFn /\ InitBannerFn /\ InitTelegramFn /\ InitSampleFn
  /\ InitSingleFn

SpecClick == InitClick /\ [][ClickCall]_vars

\* ------------------------- the single-credential script (SpecSingle)

\* Everything the single-credential script leaves alone.
singleOthers ==
  <<raw, parsed, identity, lineId, anchorTest, bannerPage, bannerRet, tgVars, sampleVars,
    clickVars, attemptVars, logVars, runVars>>

\* The page snapshots page.content() may give, by the fingerprint patterns
\* that match them.
Contents == [cloudflare : BOOLEAN, authError : BOOLEAN, success : BOOLEAN]

\* A call awaited outside the try block: when it throws, the promise of the
\* async function is rejected, nothing handles it, and the process ends with
\* code 1.
SingleRejected ==
  /\ scriptPc' = "rejected"
  /\ scriptExit' = 1

\* puppeteer.launch
SingleLaunch ==
  /\ scriptPc = "launch"
  /\ \/ /\ browser' = "open"
        /\ scriptPc' = "newPage"
        /\ UNCHANGED scriptExit
     \/ /\ SingleRejected
        /\ UNCHANGED browser
  /\ UNCHANGED <<username, password, content, currentUrl, singleOthers>>

\* browser.newPage
SingleNewPage ==
  /\ scriptPc = "newPage"
  /\ \/ /\ scriptPc' = "setUserAgent"
        /\ UNCHANGED scriptExit
     \/ SingleRejected
  /\ UNCHANGED <<browser, username, password, content, currentUrl, singleOthers>>

\* page.setUserAgent
SingleSetUserAgent ==
  /\ scriptPc = "setUserAgent"
  /\ \/ /\ scriptPc' = "env"
        /\ UNCHANGED scriptExit
     \/ SingleRejected
  /\ UNCHANGED <<browser, username, password, content, currentUrl, singleOthers>>

\* if (!username || !password) process.exit(1)
SingleEnvCheck ==
  /\ scriptPc = "env"
  /\ IF ~username \/ ~password
     THEN /\ scriptPc' = "exited"
          /\ scriptExit' = 1
     ELSE /\ scriptPc' = "goto"
          /\ UNCHANGED scriptExit
  /\ UNCHANGED <<browser, username, password, content, currentUrl, singleOthers>>

\* The awaited page calls of the try block, one action each: the call resolves
\* and the script goes on, or it throws and control passes to the catch block.

\* page.goto('https://netlib.re/login')
SingleGoto ==
  /\ scriptPc = "goto"
  /\ scriptPc' \in {"waitIdentity", "catch"}
  /\ UNCHANGED <<browser, username, password, content, currentUrl, scriptExit, singleOthers>>

\* page.waitForSelector('input[name="identity"]')
SingleWaitIdentity ==
  /\ scriptPc = "waitIdentity"
  /\ scriptPc' \in {"typeIdentity", "catch"}
  /\ UNCHANGED <<browser, username, password, content, currentUrl, scriptExit, singleOthers>>

\* page.type('input[name="identity"]', username)
SingleTypeIdentity ==
  /\ scriptPc = "typeIdentity"
  /\ scriptPc' \in {"typePassword", "catch"}
  /\ UNCHANGED <<browser, username, password, content, currentUrl, scriptExit, singleOthers>>

\* page.type('input[name="password"]', password)
SingleTypePassword ==
  /\ scriptPc = "typePassword"
  /\ scriptPc' \in {"waitSubmit", "catch"}
  /\ UNCHANGED <<browser, username, password, content, currentUrl, scriptExit, singleOthers>>

\* page.waitForSelector(submitSelector)
SingleWaitSubmit ==
  /\ scriptPc = "waitSubmit"
  /\ scriptPc' \in {"click", "catch"}
  /\ UNCHANGED <<browser, username, password, content, currentUrl, scriptExit, singleOthers>>

\* Promise.all of waitForNavigation, whose failure is caught, and page.click
SingleClick ==
  /\ scriptPc = "click"
  /\ scriptPc' \in {"content", "catch"}
  /\ UNCHANGED <<browser, username, password, content, currentUrl, scriptExit, singleOthers>>

\* content = await page.content(); currentUrl = page.url().  currentUrl is
\* kept as what the script reads of it: whether it includes '/login'.
SingleContent ==
  /\ scriptPc = "content"
  /\ \/ /\ content' \in Contents
        /\ currentUrl' \in BOOLEAN
        /\ scriptPc' = "testCloudflare"
     \/ /\ scriptPc' = "catch"
        /\ UNCHANGED <<content, currentUrl>>
  /\ UNCHANGED <<browser, username, password, scriptExit, singleOthers>>

\* if (fingerprints.cloudflare.test(content)) throw
SingleTestCloudflare ==
  /\ scriptPc = "testCloudflare"
  /\ scriptPc' = IF content.cloudflare THEN "catch" ELSE "testAuthError"
  /\ UNCHANGED <<browser, username, password, content, currentUrl, scriptExit, singleOthers>>

\* if (fingerprints.authError.test(content)) throw
SingleTestAuthError ==
  /\ scriptPc = "testAuthError"
  /\ scriptPc' = IF content.authError THEN "catch" ELSE "testSuccess"
  /\ UNCHANGED <<browser, username, password, content, currentUrl, scriptExit, singleOthers>>

\* The last test: success text, else still on the login page (throw), else a
\* warning; the two that do not throw leave the try block.
SingleTestSuccess ==
  /\ scriptPc = "testSuccess"
  /\ LET isStillOnLoginPage == currentUrl
         hasSuccessText == content.success
     IN scriptPc' = IF hasSuccessText THEN "finally"
                    ELSE IF isStillOnLoginPage THEN "catch"
                    ELSE "finally"
  /\ UNCHANGED <<browser, username, password, content, currentUrl, scriptExit, singleOthers>>

\* The catch block: page.screenshot, whose failure is caught there.
SingleCatch ==
  /\ scriptPc = "catch"
  /\ \E screenshotOk \in BOOLEAN : scriptPc' = "exit"
  /\ UNCHANGED <<browser, username, password, content, currentUrl, scriptExit, singleOthers>>

\* process.exit(1) as the last statement of the catch block: the process ends
\* there.
SingleExit ==
  /\ scriptPc = "exit"
  /\ scriptPc' = "exited"
  /\ scriptExit' = 1
  /\ UNCHANGED <<browser, username, password, content, currentUrl, singleOthers>>

\* The finally block: browser.close(), after which the function returns and
\* the process ends with code 0.
SingleFinally ==
  /\ scriptPc = "finally"
  /\ \/ /\ browser' = "closed"
        /\ scriptPc' = "exited"
        /\ scriptExit' = 0
     \/ /\ SingleRejected
        /\ UNCHANGED browser
  /\ UNCHANGED <<username, password, content, currentUrl, singleOthers>>

NextSingle ==
  \/ SingleLaunch \/ SingleNewPage \/ SingleSetUserAgent \/ SingleEnvCheck
  \/ SingleGoto \/ SingleWaitIdentity \/ SingleTypeIdentity \/ SingleTypePassword
  \/ SingleWaitSubmit \/ SingleClick \/ SingleContent
  \/ SingleTestCloudflare \/ SingleTestAuthError \/ SingleTestSuccess
  \/ SingleCatch \/ SingleExit \/ SingleFinally

\* The script is started with USERNAME and PASSWORD each set or not.
InitSingle ==
  /\ InitAttempt /\ user = <<"a">> /\ InitLogs /\ InitRun
  /\ InitParseFn /\ InitAnchorFn /\ InitBannerFn /\ InitTelegramFn /\ InitSampleFn
  /\ InitClickFn
  /\ scriptPc = "launch"
  /\ browser = "none"
  /\ username \in BOOLEAN
  /\ password \in BOOLEAN
  /\ content = NoContent
  /\ currentUrl = FALSE
  /\ scriptExit = Unset

SpecSingle == InitSingle /\ [][NextSingle]_vars

\* ---------------------------------------------------- claims: the log channel

\* The last line of t that is the anchor of u, stated on its own: an anchor
\* line with no anchor line after it.
IsLastAnchor(t, u, k) ==
  /\ k \in 1..Len(t)
  /\ t[k] = Anchor(u)
  /\ \A j \in (k + 1)..Len(t) : t[j] # Anchor(u)

HasAnchor(t, u) == \E k \in 1..Len(t) : t[k] = Anchor(u)

Called == logs.verdict # NoCall

\* The transcript of the spec's example for the last-anchor rule.
TwoAnchorTranscript(u) ==
  <<Anchor(u), LineInvalid, Anchor(u), LineAuthd, LineDns>>

\* C4: the verdict of getLoginVerdictFromLogs depends only on the text from
\* the LAST anchor of the identity onward: putting any other lines in front
\* of that text, or none, gives the same verdict, so a failure marker after
\* an earlier anchor does not count; the transcript anchor, failure, anchor,
\* authd, dnsmanagerd gives SUCCESS.
C4_LastAnchorOnly ==
  Called =>
    /\ \A k \in 1..Len(logs.bodyText) :
         IsLastAnchor(logs.bodyText, logs.user, k) =>
           \A p \in SeqsUpTo(Lines, 2) :
             GetLoginVerdictFromLogs(p \o SliceFrom(logs.bodyText, k), logs.user)
               = logs.verdict
    /\ (logs.bodyText = TwoAnchorTranscript(logs.user) => logs.verdict = "SUCCESS")

C4_Witness ==
  /\ Called
  /\ logs.bodyText = TwoAnchorTranscript(logs.user)
  /\ logs.verdict = "SUCCESS"

\* C5: getLoginVerdictFromLogs reports NONE exactly when the transcript holds
\* no anchor of the identity; with an anchor the verdict is UNKNOWN, SUCCESS
\* or FAIL_INVALID, and without one it is never UNKNOWN, whatever markers
\* the transcript holds.
C5_NoneIffNoAnchor ==
  Called =>
    /\ (logs.verdict = "NONE") <=> ~HasAnchor(logs.bodyText, logs.user)
    /\ HasAnchor(logs.bodyText, logs.user) =>
         logs.verdict \in {"UNKNOWN", "SUCCESS", "FAIL_INVALID"}
    /\ ~HasAnchor(logs.bodyText, logs.user) => logs.verdict # "UNKNOWN"

\* A transcript with markers and another identity's anchor, but no anchor of
\* the identity asked for, read as NONE.
C5_Witness ==
  /\ Called
  /\ ~HasAnchor(logs.bodyText, logs.user)
  /\ \E n, j \in 1..Len(logs.bodyText) :
       /\ logs.bodyText[n] = LineInvalid
       /\ logs.bodyText[j] \in {Anchor(u) : u \in Users \ {logs.user}}
  /\ logs.verdict = "NONE"

\* C6: after the last anchor, SUCCESS is reported exactly when both success
\* lines appear and no failure marker does; one success line alone gives
\* UNKNOWN, and a failure marker with both success lines gives FAIL_INVALID.
C6_TwoPartSuccess ==
  Called =>
    \A k \in 1..Len(logs.bodyText) :
      IsLastAnchor(logs.bodyText, logs.user, k) =>
        LET after(m) == \E n \in k..Len(logs.bodyText) : logs.bodyText[n] = m
        IN /\ (logs.verdict = "SUCCESS") <=>
                (after(LineAuthd) /\ after(LineDns) /\ ~after(LineInvalid))
           /\ (after(LineAuthd) # after(LineDns)) /\ ~after(LineInvalid)
                => logs.verdict = "UNKNOWN"
           /\ after(LineInvalid) /\ after(LineAuthd) /\ after(LineDns)
                => logs.verdict = "FAIL_INVALID"

\* Both success lines and a failure marker after the anchor, read as
\* FAIL_INVALID.
C6_Witness ==
  /\ Called
  /\ logs.bodyText = <<Anchor(logs.user), LineAuthd, LineDns, LineInvalid>>
  /\ logs.verdict = "FAIL_INVALID"

\* ------------------------------------------------- the attempt: loginWithAccount

\* result.status = s; result.reason = r
SetStatus(s, r) == [result EXCEPT !.status = s, !.reason = r]

\* result.evidence.<field> = v
SetEvidence(res, field, v) == [res EXCEPT !.evidence[field] = v]

\* chromium.launch, outside the try block: a failure leaves the function.
Launch ==
  /\ pc = "launch"
  /\ \E ok \in BOOLEAN :
       IF ok THEN open' = open \cup {<<i, "browser">>} /\ pc' = "newContext"
             ELSE open' = open /\ pc' = "threw"
  /\ UNCHANGED <<user, loginHref, result, assigns, readyRet, navOk, url, hashIdx,
                 goneFrom, goneIter, pollIter, filled, submitted, loginClicked,
                 authClicked, authHref, offRoot, inputSeen, overlay, windowElapsed,
                 exc, pollObs,
                 initScripts, storage, doc, logVars, runVars, fnVars>>

\* browser.newContext, outside the try block.
NewContext ==
  /\ pc = "newContext"
  /\ \E ok \in BOOLEAN :
       IF ok THEN open' = open \cup {<<i, "context">>} /\ pc' = "newPage" /\ storage' = {}
             ELSE open' = open /\ pc' = "threw" /\ storage' = storage
  /\ UNCHANGED <<user, loginHref, result, assigns, readyRet, navOk, url, hashIdx,
                 goneFrom, goneIter, pollIter, filled, submitted, loginClicked,
                 authClicked, authHref, offRoot, inputSeen, overlay, windowElapsed,
                 exc, pollObs,
                 initScripts, doc, logVars, runVars, fnVars>>

\* context.newPage, outside the try block; the result object follows it.
NewPage ==
  /\ pc = "newPage"
  /\ \E ok \in BOOLEAN :
       IF ok THEN open' = open \cup {<<i, "page">>} /\ pc' = "addInitScript"
             ELSE open' = open /\ pc' = "threw"
  /\ UNCHANGED <<user, loginHref, result, assigns, readyRet, navOk, url, hashIdx,
                 goneFrom, goneIter, pollIter, filled, submitted, loginClicked,
                 authClicked, authHref, offRoot, inputSeen, overlay, windowElapsed,
                 exc, pollObs,
                 initScripts, storage, doc, logVars, runVars, fnVars>>

\* page.addInitScript registering nothing.
AddInitScriptNone ==
  /\ pc = "addInitScript"
  /\ \E ok \in BOOLEAN :
       /\ pc' = IF ok THEN "gotoHome" ELSE "catch"
       /\ exc' = IF ok THEN exc ELSE "page.addInitScript"
  /\ UNCHANGED <<user, loginHref, open, result, assigns, readyRet, navOk, url,
                 hashIdx, goneFrom, goneIter, pollIter, filled, submitted,
                 loginClicked, authClicked, authHref, offRoot, inputSeen, overlay,
                 windowElapsed, pollObs, initScripts, storage, doc,
                 logVars, runVars, fnVars>>

\* page.addInitScript, the first call inside the try block: the script
\* that clears localStorage and sessionStorage is registered on the page.
AddInitScript ==
  /\ pc = "addInitScript"
  /\ \E ok \in BOOLEAN :
       /\ pc' = IF ok THEN "gotoHome" ELSE "catch"
       /\ exc' = IF ok THEN exc ELSE "page.addInitScript"
       /\ initScripts' = IF ok THEN initScripts \cup {"clearStorage"} ELSE initScripts
  /\ UNCHANGED <<user, loginHref, open, result, assigns, readyRet, navOk, url,
                 hashIdx, goneFrom, goneIter, pollIter, filled, submitted,
                 loginClicked, authClicked, authHref, offRoot, inputSeen, overlay, windowElapsed,
                 pollObs,
                 storage, doc, logVars, runVars, fnVars>>

\* page.goto(baseUrl)
GotoHome ==
  /\ pc = "gotoHome"
  /\ \E ok \in BOOLEAN :
       IF ok THEN /\ url' = UrlRoot /\ pc' = "homeNews"
                  /\ doc' = LoadDocument(initScripts, storage).doc
                  /\ storage' = LoadDocument(initScripts, storage).storage
             ELSE url' = url /\ pc' = "catch" /\ UNCHANGED <<doc, storage>>
  /\ exc' = IF pc' = "catch" THEN "page.goto" ELSE exc
  /\ UNCHANGED <<user, loginHref, open, result, assigns, readyRet, navOk, hashIdx,
                 goneFrom, goneIter, pollIter, filled, submitted, loginClicked,
                 authClicked, authHref, offRoot, inputSeen, overlay, windowElapsed,
                 pollObs,
                 initScripts, logVars, runVars, fnVars>>

\* waitForHomeReady, first half: readNews.waitFor throws when the home
\* indicator does not appear; when it appears waitForDisconnectedGone starts.
HomeNews ==
  /\ pc = "homeNews"
  /\ \E appears \in BOOLEAN :
       IF appears THEN pc' = "gone" /\ goneFrom' = "home" /\ goneIter' = 0
                  ELSE pc' = "catch" /\ UNCHANGED <<goneFrom, goneIter>>
  /\ exc' = IF pc' = "catch" THEN "readNews.waitFor" ELSE exc
  /\ UNCHANGED <<user, loginHref, open, result, assigns, readyRet, navOk, url,
                 hashIdx, pollIter, filled, submitted, loginClicked, authClicked, authHref,
                 offRoot, inputSeen, overlay, windowElapsed,
                 pollObs,
                 initScripts, storage, doc, logVars, runVars, fnVars>>

\* What the reads of the disconnect overlay since the submit have found,
\* after one more read: visible at every read, or clear at some read.
ObserveOverlay(prev, visible) ==
  IF ~visible \/ prev = "cleared" THEN "cleared" ELSE "always"

\* Where waitForDisconnectedGone returns to, by caller; only waitForHomeReady's
\* caller reads the value returned.
AfterGone(from, ret) ==
  IF from = "home" THEN (IF ret THEN "hashNav" ELSE "notReady")
  ELSE IF from = "nav" THEN "checkNotFound"
  ELSE "pollSample"

\* waitForDisconnectedGone with a reload of the page while the overlay is up.
GoneIterReload ==
  /\ pc = "gone"
  /\ \E visible \in BOOLEAN :
       LET done == ~visible \/ goneIter + 1 >= MaxGoneIters
           ret == ~visible
       IN /\ goneIter' = IF done THEN 0 ELSE goneIter + 1
          /\ goneFrom' = IF done THEN Unset ELSE goneFrom
          /\ pc' = IF done THEN AfterGone(goneFrom, ret) ELSE "gone"
          /\ readyRet' = IF done /\ goneFrom = "home" THEN Bool(ret) ELSE readyRet
          /\ hashIdx' = IF done /\ goneFrom = "home" /\ ret THEN 1 ELSE hashIdx
          /\ overlay' = IF goneFrom = "poll" THEN ObserveOverlay(overlay, visible)
                                             ELSE overlay
          /\ url' = IF visible THEN UrlRoot ELSE url
  /\ UNCHANGED <<user, loginHref, open, result, assigns, navOk,
                 pollIter, filled, submitted, loginClicked, authClicked, authHref, offRoot,
                 inputSeen, windowElapsed, exc, pollObs,
                 initScripts, storage, doc, logVars, runVars, fnVars>>

\* One iteration of waitForDisconnectedGone: read the overlay's visibility;
\* return true if it is gone, else sleep 400 ms and return false once the
\* timeout has elapsed.
GoneIter ==
  /\ pc = "gone"
  /\ \E visible \in BOOLEAN :
       LET done == ~visible \/ goneIter + 1 >= MaxGoneIters
           ret == ~visible
       IN /\ goneIter' = IF done THEN 0 ELSE goneIter + 1
          /\ goneFrom' = IF done THEN Unset ELSE goneFrom
          /\ pc' = IF done THEN AfterGone(goneFrom, ret) ELSE "gone"
          /\ readyRet' = IF done /\ goneFrom = "home" THEN Bool(ret) ELSE readyRet
          /\ hashIdx' = IF done /\ goneFrom = "home" /\ ret THEN 1 ELSE hashIdx
          /\ overlay' = IF goneFrom = "poll" THEN ObserveOverlay(overlay, visible)
                                             ELSE overlay
  /\ UNCHANGED <<user, loginHref, open, result, assigns, navOk, url,
                 pollIter, filled, submitted, loginClicked, authClicked, authHref, offRoot,
                 inputSeen, windowElapsed, exc, pollObs,
                 initScripts, storage, doc, logVars, runVars, fnVars>>

\* if (!ready): the status is written, then the overlay is read into the
\* evidence and a screenshot is taken (failures swallowed).
NotReady ==
  /\ pc = "notReady"
  /\ \E d \in BOOLEAN :
       result' = SetEvidence(SetStatus("FAIL_UNKNOWN", "home: overlay did not clear"),
                             "disconnected", d)
  /\ assigns' = assigns + 1
  /\ pc' = "earlyLogs"
  /\ UNCHANGED <<user, loginHref, open, readyRet, navOk, url, hashIdx, goneFrom,
                 goneIter, pollIter, filled, submitted, loginClicked, authClicked, authHref,
                 offRoot, inputSeen, overlay, windowElapsed,
                 exc, pollObs,
                 initScripts, storage, doc, logVars, runVars, fnVars>>

\* The end of each early return: getLoginVerdictFromLogs for the snippet,
\* not wrapped, so a failing page.evaluate throws into the catch block;
\* otherwise the function returns the result.
EarlyLogs ==
  /\ pc = "earlyLogs"
  /\ \E ok \in BOOLEAN :
       /\ pc' = IF ok THEN "finally" ELSE "catch"
       /\ exc' = IF ok THEN exc ELSE "page.evaluate"
  /\ UNCHANGED <<user, loginHref, open, result, assigns, readyRet, navOk, url,
                 hashIdx, goneFrom, goneIter, pollIter, filled, submitted,
                 loginClicked, authClicked, authHref, offRoot, inputSeen, overlay, windowElapsed,
                 pollObs,
                 initScripts, storage, doc, logVars, runVars, fnVars>>

\* ------------------------------------------------- the router: gotoLoginPage

\* page.goto(baseUrl).catch(() => {}) and then the fragment assignment,
\* each of which may fail and is then skipped.
AfterHashNav(u, gotoOk, hashOk) ==
  LET u1 == IF gotoOk THEN UrlRoot ELSE u
  IN IF hashOk THEN WithHash(u1) ELSE u1

\* gotoHash, lines 865-869: go to the origin root and set the fragment.
HashNav ==
  /\ pc = "hashNav"
  /\ \E gotoOk, hashOk \in BOOLEAN :
       /\ url' = AfterHashNav(url, gotoOk, hashOk)
       /\ doc' = IF gotoOk THEN LoadDocument(initScripts, storage).doc ELSE doc
       /\ storage' = IF gotoOk THEN LoadDocument(initScripts, storage).storage ELSE storage
  /\ pc' = "hashNotFound"
  /\ UNCHANGED <<user, loginHref, open, result, assigns, readyRet, navOk, hashIdx,
                 goneFrom, goneIter, pollIter, filled, submitted, loginClicked,
                 authClicked, authHref, offRoot, inputSeen, overlay, windowElapsed,
                 exc, pollObs,
                 initScripts, logVars, runVars, fnVars>>

\* gotoHash, lines 872-876: on a not-found page, go to the root and set the
\* fragment once more.
HashNotFound ==
  /\ pc = "hashNotFound"
  /\ \E notFound, gotoOk, hashOk \in BOOLEAN :
       /\ url' = IF notFound THEN AfterHashNav(url, gotoOk, hashOk) ELSE url
       /\ doc' = IF notFound /\ gotoOk THEN LoadDocument(initScripts, storage).doc ELSE doc
       /\ storage' = IF notFound /\ gotoOk THEN LoadDocument(initScripts, storage).storage
                                            ELSE storage
  /\ pc' = "authTab"
  /\ UNCHANGED <<user, loginHref, open, result, assigns, readyRet, navOk, hashIdx,
                 goneFrom, goneIter, pollIter, filled, submitted, loginClicked,
                 authClicked, authHref, offRoot, inputSeen, overlay, windowElapsed,
                 exc, pollObs,
                 initScripts, logVars, runVars, fnVars>>

\* gotoHash, lines 879-886: a visible Authentication link is clicked when
\* its href passes the guard; the click may fail (swallowed).
AuthTab ==
  /\ pc = "authTab"
  /\ \E visible, clickOk \in BOOLEAN, href \in Hrefs :
       IF visible
       THEN /\ authHref' = href
            /\ IF MayClick(href)
               THEN /\ authClicked' = authClicked \cup {href}
                    /\ url' = IF clickOk THEN ClickTarget(url, href) ELSE url
                    /\ offRoot' = (offRoot \/ (clickOk /\ ClickTarget(url, href) = UrlPath))
               ELSE UNCHANGED <<authClicked, url, offRoot>>
       ELSE authHref' = Unset /\ UNCHANGED <<authClicked, url, offRoot>>
  /\ pc' = "hashInput"
  /\ LET loads == url' = UrlPath /\ url # UrlPath  \* the click left for a server path
     IN /\ doc' = IF loads THEN LoadDocument(initScripts, storage).doc ELSE doc
        /\ storage' = IF loads THEN LoadDocument(initScripts, storage).storage ELSE storage
  /\ UNCHANGED <<user, loginHref, open, result, assigns, readyRet, navOk, hashIdx,
                 goneFrom, goneIter, pollIter, filled, submitted, loginClicked,
                 inputSeen, overlay, windowElapsed,
                 exc, pollObs,
                 initScripts, logVars, runVars, fnVars>>

\* gotoHash's last test and the loop over the aliases, lines 888-899: a
\* visible username input ends gotoLoginPage with ok true; otherwise the
\* next alias is tried, and after the last one the Login link.
HashInput ==
  /\ pc = "hashInput"
  /\ \E visible \in BOOLEAN :
       IF visible
       THEN /\ inputSeen' = TRUE
            /\ navOk' = Bool(TRUE)
            /\ pc' = "navReturn"
            /\ UNCHANGED hashIdx
       ELSE /\ UNCHANGED <<inputSeen, navOk>>
            /\ IF hashIdx < Len(hashes)
               THEN hashIdx' = hashIdx + 1 /\ pc' = "hashNav"
               ELSE hashIdx' = hashIdx /\ pc' = "loginLink"
  /\ UNCHANGED <<user, loginHref, open, result, assigns, readyRet, url, goneFrom,
                 goneIter, pollIter, filled, submitted, loginClicked, authClicked, authHref,
                 offRoot, overlay, windowElapsed,
                 exc, pollObs,
                 initScripts, storage, doc, logVars, runVars, fnVars>>

\* The last resort, lines 902-916: a visible Login link is clicked when its
\* href passes the guard, and gotoLoginPage returns ok true if the username
\* input then shows; in every other case it returns ok false.
LoginLink ==
  /\ pc = "loginLink"
  /\ \E visible, clickOk, inputVisible \in BOOLEAN, href \in Hrefs :
       IF visible
       THEN /\ loginHref' = href
            /\ IF MayClick(href)
               THEN /\ loginClicked' = TRUE
                    /\ url' = IF clickOk THEN ClickTarget(url, href) ELSE url
                    /\ offRoot' = (offRoot \/ (clickOk /\ ClickTarget(url, href) = UrlPath))
                    /\ navOk' = Bool(inputVisible)
               ELSE /\ navOk' = Bool(FALSE)
                    /\ UNCHANGED <<loginClicked, url, offRoot>>
       ELSE /\ navOk' = Bool(FALSE)
            /\ UNCHANGED <<loginHref, loginClicked, url, offRoot>>
  /\ pc' = "navReturn"
  /\ LET loads == url' = UrlPath /\ url # UrlPath  \* the click left for a server path
     IN /\ doc' = IF loads THEN LoadDocument(initScripts, storage).doc ELSE doc
        /\ storage' = IF loads THEN LoadDocument(initScripts, storage).storage ELSE storage
  /\ UNCHANGED <<user, open, result, assigns, readyRet, hashIdx, goneFrom, goneIter,
                 pollIter, filled, submitted, authClicked, authHref, inputSeen, overlay, windowElapsed,
                 exc, pollObs,
                 initScripts, logVars, runVars, fnVars>>

\* Lines 1007-1012: gotoLoginPage has returned; its locals are gone, and
\* waitForDisconnectedGone(page, 20000) follows.
NavReturn ==
  /\ pc = "navReturn"
  /\ hashIdx' = 0
  /\ loginHref' = Unset
  /\ loginClicked' = FALSE
  /\ authClicked' = {}
  /\ authHref' = Unset
  /\ offRoot' = FALSE
  /\ inputSeen' = FALSE
  /\ pc' = "gone" /\ goneFrom' = "nav" /\ goneIter' = 0
  /\ UNCHANGED <<user, open, result, assigns, readyRet, navOk, url, pollIter,
                 filled, submitted, overlay, windowElapsed,
                 exc, pollObs,
                 initScripts, storage, doc, logVars, runVars, fnVars>>

\* ------------------------------------------- the attempt, after the router

\* if (await isNotFoundPage(page)), lines 1015-1022.
CheckNotFound ==
  /\ pc = "checkNotFound"
  /\ \E notFound \in BOOLEAN :
       IF notFound
       THEN /\ result' = SetStatus("FAIL_UNKNOWN", "login page: 404 Not Found")
            /\ assigns' = assigns + 1
            /\ pc' = "earlyLogs"
       ELSE /\ pc' = "checkUserInput"
            /\ UNCHANGED <<result, assigns>>
  /\ UNCHANGED <<user, loginHref, open, readyRet, navOk, url, hashIdx, goneFrom,
                 goneIter, pollIter, filled, submitted, loginClicked, authClicked, authHref,
                 offRoot, inputSeen, overlay, windowElapsed,
                 exc, pollObs,
                 initScripts, storage, doc, logVars, runVars, fnVars>>

\* if (!(await userInput.isVisible())), lines 1032-1039.  nav.ok is not read.
CheckUserInput ==
  /\ pc = "checkUserInput"
  /\ \E visible \in BOOLEAN :
       IF ~visible
       THEN /\ result' = SetStatus("FAIL_UNKNOWN", "login page: no username input")
            /\ assigns' = assigns + 1
            /\ pc' = "earlyLogs"
       ELSE /\ pc' = "waitPass"
            /\ UNCHANGED <<result, assigns>>
  /\ UNCHANGED <<user, loginHref, open, readyRet, navOk, url, hashIdx, goneFrom,
                 goneIter, pollIter, filled, submitted, loginClicked, authClicked, authHref,
                 offRoot, inputSeen, overlay, windowElapsed,
                 exc, pollObs,
                 initScripts, storage, doc, logVars, runVars, fnVars>>

\* passInput.waitFor, line 1046: throws when the input does not show.
WaitPass ==
  /\ pc = "waitPass"
  /\ \E ok \in BOOLEAN :
       /\ pc' = IF ok THEN "fillUser" ELSE "catch"
       /\ exc' = IF ok THEN exc ELSE "passInput.waitFor"
  /\ UNCHANGED <<user, loginHref, open, result, assigns, readyRet, navOk, url,
                 hashIdx, goneFrom, goneIter, pollIter, filled, submitted,
                 loginClicked, authClicked, authHref, offRoot, inputSeen, overlay, windowElapsed,
                 pollObs,
                 initScripts, storage, doc, logVars, runVars, fnVars>>

\* userInput.fill(user), line 1049.
FillUser ==
  /\ pc = "fillUser"
  /\ \E ok \in BOOLEAN :
       IF ok THEN filled' = filled \cup {"username"} /\ pc' = "fillPass"
             ELSE filled' = filled /\ pc' = "catch"
  /\ exc' = IF pc' = "catch" THEN "userInput.fill" ELSE exc
  /\ UNCHANGED <<user, loginHref, open, result, assigns, readyRet, navOk, url,
                 hashIdx, goneFrom, goneIter, pollIter, submitted, loginClicked,
                 authClicked, authHref, offRoot, inputSeen, overlay, windowElapsed,
                 pollObs,
                 initScripts, storage, doc, logVars, runVars, fnVars>>

\* passInput.fill(pass), line 1052.
FillPass ==
  /\ pc = "fillPass"
  /\ \E ok \in BOOLEAN :
       IF ok THEN filled' = filled \cup {"password"} /\ pc' = "submit"
             ELSE filled' = filled /\ pc' = "catch"
  /\ exc' = IF pc' = "catch" THEN "passInput.fill" ELSE exc
  /\ UNCHANGED <<user, loginHref, open, result, assigns, readyRet, navOk, url,
                 hashIdx, goneFrom, goneIter, pollIter, submitted, loginClicked,
                 authClicked, authHref, offRoot, inputSeen, overlay, windowElapsed,
                 pollObs,
                 initScripts, storage, doc, logVars, runVars, fnVars>>

\* Line 1055: clickValidateScoped(page).catch(...).  The form's and the
\* panel's button are clicked when visible, the page-wide one without a test,
\* so its click throws when there is none; any click may time out.  The call
\* site swallows the exception, and the polling loop follows either way.
Submit ==
  /\ pc = "submit"
  /\ \E formBtn, panelBtn, globalBtn, clickOk \in BOOLEAN :
       LET used == ClickValidateScoped(formBtn, panelBtn)
       IN submitted' = IF used = "global->Validate" THEN globalBtn /\ clickOk
                                                   ELSE clickOk
  /\ pc' = "anchorLoc"
  /\ storage' = IF submitted' THEN storage \cup {"auth"} ELSE storage  \* the site's doing
  /\ UNCHANGED <<user, loginHref, open, result, assigns, readyRet, navOk, url,
                 hashIdx, goneFrom, goneIter, pollIter, filled, loginClicked,
                 authClicked, authHref, offRoot, inputSeen, overlay, windowElapsed,
                 exc, pollObs,
                 initScripts, doc, logVars, runVars, fnVars>>

\* Line 1058: the anchor pattern is built from the identity as it stands;
\* the RegExp constructor throws when the text is no pattern.
AnchorLoc ==
  /\ pc = "anchorLoc"
  /\ pc' = IF AnchorRegExp(user).ok THEN "poll" ELSE "catch"
  /\ exc' = IF AnchorRegExp(user).ok THEN exc ELSE "new RegExp"
  /\ pollIter' = 0
  /\ UNCHANGED <<user, loginHref, open, result, assigns, readyRet, navOk, url,
                 hashIdx, goneFrom, goneIter, filled, submitted, loginClicked,
                 authClicked, authHref, offRoot, inputSeen, overlay, windowElapsed,
                 pollObs,
                 initScripts, storage, doc, logVars, runVars, fnVars>>

\* The head of the polling loop, lines 1060-1063: while the window has not
\* elapsed, read the overlay; when it is up, waitForDisconnectedGone(page,
\* 15000) runs before the sample.  When the window has elapsed the settle
\* delay follows.
PollHead ==
  /\ pc = "poll"
  /\ IF pollIter < MaxPollIters
     THEN \E disconnected \in BOOLEAN :
            /\ overlay' = ObserveOverlay(overlay, disconnected)
            /\ windowElapsed' = windowElapsed
            /\ IF disconnected
               THEN pc' = "gone" /\ goneFrom' = "poll" /\ goneIter' = 0
               ELSE pc' = "pollSample" /\ UNCHANGED <<goneFrom, goneIter>>
     ELSE /\ pc' = "settle"
          /\ windowElapsed' = TRUE
          /\ UNCHANGED <<goneFrom, goneIter, overlay>>
  /\ pollIter' = IF pollIter < MaxPollIters THEN pollIter ELSE 0
  /\ UNCHANGED <<user, loginHref, open, result, assigns, readyRet, navOk, url,
                 hashIdx, filled, submitted, loginClicked, authClicked, authHref,
                 offRoot, inputSeen, exc, pollObs,
                 initScripts, storage, doc, logVars, runVars, fnVars>>

\* The states getLoginVerdictFromLogs tells apart in the page's log stream.
LogStates == {"NONE", "UNKNOWN", "SUCCESS", "FAIL_INVALID"}

\* The sample of one polling iteration, line 1065: the banner, whose
\* loc.count() may throw.
PollSample ==
  /\ pc = "pollSample"
  /\ \E countOk \in BOOLEAN, bp \in BannerPages :
       IF ~bp.alert /\ ~countOk
       THEN pc' = "catch" /\ pollIter' = 0 /\ exc' = "loc.count" /\ pollObs' = NoPollObs
       ELSE /\ pc' = "pollUI"
            /\ pollObs' = [NoPollObs EXCEPT !.topInvalid = HasTopInvalidBanner(bp)]
            /\ UNCHANGED <<pollIter, exc>>
  /\ UNCHANGED <<user, loginHref, open, result, assigns, readyRet, navOk, url,
                 hashIdx, goneFrom, goneIter, filled, submitted, loginClicked,
                 authClicked, authHref, offRoot, inputSeen, overlay, windowElapsed,
                 initScripts, storage, doc, logVars, runVars, fnVars>>

\* Line 1066: the UI success signals.
PollUI ==
  /\ pc = "pollUI"
  /\ \E hasMyDomains, hasOwnerText \in BOOLEAN :
       pollObs' = [pollObs EXCEPT
                     !.uiSuccess = GetSuccessSignalsUI(hasMyDomains, hasOwnerText).success]
  /\ pc' = "pollAnchor"
  /\ UNCHANGED <<user, loginHref, open, result, assigns, readyRet, navOk, url,
                 hashIdx, goneFrom, goneIter, pollIter, filled, submitted, loginClicked,
                 authClicked, authHref, offRoot, inputSeen, overlay, windowElapsed,
                 exc, initScripts, storage, doc, logVars, runVars, fnVars>>

\* The last read of an iteration, with the verdict written as soon as the
\* loop's sample finds the banner.
PollAnchorSticky ==
  /\ pc = "pollAnchor"
  /\ \E shown \in BOOLEAN, logState \in LogStates :
       LET hasAnchor == shown /\ logState # "NONE"
       IN /\ pollObs' = [pollObs EXCEPT !.sampled = TRUE, !.hasAnchor = hasAnchor,
                                        !.logs = logState]
          /\ IF pollObs.topInvalid \/ pollObs.uiSuccess \/ hasAnchor
             THEN pc' = "settle" /\ pollIter' = 0
             ELSE pc' = "poll" /\ pollIter' = pollIter + 1
  /\ result' = IF pollObs.topInvalid
               THEN SetEvidence(SetStatus("FAIL_INVALID", "ui: top Invalid credentials"),
                                "topInvalid", TRUE)
               ELSE result
  /\ UNCHANGED <<user, loginHref, open, assigns, readyRet, navOk, url,
                 hashIdx, goneFrom, goneIter, filled, submitted, loginClicked,
                 authClicked, authHref, offRoot, inputSeen, overlay, windowElapsed,
                 exc, initScripts, storage, doc, logVars, runVars, fnVars>>

\* Lines 1067-1070: anchorLoc.first().isVisible().catch(() => false), true
\* when the identity's anchor line is in the log stream and shown; then the
\* test that ends the loop, else a sleep of 350 ms.  The stream is not read
\* here; pollObs notes the state getLoginVerdictFromLogs would have found.
PollAnchor ==
  /\ pc = "pollAnchor"
  /\ \E shown \in BOOLEAN, logState \in LogStates :
       LET hasAnchor == shown /\ logState # "NONE"
       IN /\ pollObs' = [pollObs EXCEPT !.sampled = TRUE, !.hasAnchor = hasAnchor,
                                        !.logs = logState]
          /\ IF pollObs.topInvalid \/ pollObs.uiSuccess \/ hasAnchor
             THEN pc' = "settle" /\ pollIter' = 0
             ELSE pc' = "poll" /\ pollIter' = pollIter + 1
  /\ UNCHANGED <<user, loginHref, open, result, assigns, readyRet, navOk, url,
                 hashIdx, goneFrom, goneIter, filled, submitted, loginClicked,
                 authClicked, authHref, offRoot, inputSeen, overlay, windowElapsed,
                 exc, initScripts, storage, doc, logVars, runVars, fnVars>>

\* The settle delay and the first read of the final sample, lines 1073-1077.
\* The loop's locals are out of scope.
FinalDisconnected ==
  /\ pc = "settle"
  /\ \E d \in BOOLEAN :
       /\ result' = SetEvidence(result, "disconnected", d)
       /\ overlay' = ObserveOverlay(overlay, d)
  /\ pollObs' = NoPollObs
  /\ pc' = "finalBanner"
  /\ UNCHANGED <<user, loginHref, open, assigns, readyRet, navOk, url, hashIdx,
                 goneFrom, goneIter, pollIter, filled, submitted, loginClicked,
                 authClicked, authHref, offRoot, inputSeen, windowElapsed,
                 exc,
                 initScripts, storage, doc, logVars, runVars, fnVars>>

\* result.evidence.topInvalid = await hasTopInvalidBanner(page), line 1079.
FinalBanner ==
  /\ pc = "finalBanner"
  /\ \E countOk \in BOOLEAN, bp \in BannerPages :
       IF ~bp.alert /\ ~countOk
       THEN pc' = "catch" /\ result' = result /\ exc' = "loc.count"
       ELSE /\ result' = SetEvidence(result, "topInvalid", HasTopInvalidBanner(bp))
            /\ pc' = "finalUI"
            /\ exc' = exc
  /\ UNCHANGED <<user, loginHref, open, assigns, readyRet, navOk, url, hashIdx,
                 goneFrom, goneIter, pollIter, filled, submitted, loginClicked,
                 authClicked, authHref, offRoot, inputSeen, overlay, windowElapsed,
                 pollObs,
                 initScripts, storage, doc, logVars, runVars, fnVars>>

\* Lines 1080-1082: the UI success signals.
FinalUI ==
  /\ pc = "finalUI"
  /\ \E hasMyDomains, hasOwnerText \in BOOLEAN :
       LET ui == GetSuccessSignalsUI(hasMyDomains, hasOwnerText)
       IN result' = SetEvidence(SetEvidence(result, "uiMyDomains", ui.hasMyDomains),
                                "uiOwnerText", ui.hasOwnerText)
  /\ pc' = "finalLogs"
  /\ UNCHANGED <<user, loginHref, open, assigns, readyRet, navOk, url, hashIdx,
                 goneFrom, goneIter, pollIter, filled, submitted, loginClicked,
                 authClicked, authHref, offRoot, inputSeen, overlay, windowElapsed,
                 exc, pollObs,
                 initScripts, storage, doc, logVars, runVars, fnVars>>

\* Lines 1084-1087: the log verdict; page.evaluate may throw.
FinalLogs ==
  /\ pc = "finalLogs"
  /\ \E evalOk \in BOOLEAN, bodyText \in Bodies :
       IF ~evalOk
       THEN pc' = "catch" /\ result' = result /\ exc' = "page.evaluate"
       ELSE /\ result' = SetEvidence(result, "logsVerdict",
                                     GetLoginVerdictFromLogs(bodyText, user))
            /\ pc' = "decide"
            /\ exc' = exc
  /\ UNCHANGED <<user, loginHref, open, assigns, readyRet, navOk, url, hashIdx,
                 goneFrom, goneIter, pollIter, filled, submitted, loginClicked,
                 authClicked, authHref, offRoot, inputSeen, overlay, windowElapsed,
                 pollObs,
                 initScripts, storage, doc, logVars, runVars, fnVars>>

\* Lines 1093-1122: the decision; the screenshots that follow swallow their
\* failures, and the function returns.
DecideStep ==
  /\ pc = "decide"
  /\ LET d == Decide(result.evidence)
     IN result' = [result EXCEPT !.status = d.status, !.reason = d.reason,
                                 !.success = d.success]
  /\ assigns' = assigns + 1
  /\ pc' = "finally"
  /\ UNCHANGED <<user, loginHref, open, readyRet, navOk, url, hashIdx, goneFrom,
                 goneIter, pollIter, filled, submitted, loginClicked, authClicked, authHref,
                 offRoot, inputSeen, overlay, windowElapsed,
                 exc, pollObs,
                 initScripts, storage, doc, logVars, runVars, fnVars>>

\* The catch block, lines 1124-1138: the reason carries the exception's
\* message; every call in the block swallows its failure.
Catch ==
  /\ pc = "catch"
  /\ \E d \in BOOLEAN :
       result' = SetEvidence([SetStatus("ERROR", "script exception: " \o exc)
                                EXCEPT !.success = FALSE],
                             "disconnected", d)
  /\ exc' = NoExc
  /\ assigns' = assigns + 1
  /\ pc' = "finally"
  /\ UNCHANGED <<user, loginHref, open, readyRet, navOk, url, hashIdx, goneFrom,
                 goneIter, pollIter, filled, submitted, loginClicked, authClicked, authHref,
                 offRoot, inputSeen, overlay, windowElapsed,
                 pollObs,
                 initScripts, storage, doc, logVars, runVars, fnVars>>

\* The return of the result with no finally block.
ReturnWithoutClose ==
  /\ pc = "finally"
  /\ pc' = "returned"
  /\ UNCHANGED <<user, loginHref, open, result, assigns, readyRet, navOk, url,
                 hashIdx, goneFrom, goneIter, pollIter, filled, submitted,
                 loginClicked, authClicked, authHref, offRoot, inputSeen, overlay,
                 windowElapsed, exc, pollObs,
                 initScripts, storage, doc, logVars, runVars, fnVars>>

\* The finally block, lines 1140-1144, and the return of the result: the
\* attempt's page, context and browser are closed (a close that fails finds
\* its target gone already).
Finally ==
  /\ pc = "finally"
  /\ open' = {s \in open : s[1] # i}
  /\ pc' = "returned"
  /\ UNCHANGED <<user, loginHref, result, assigns, readyRet, navOk, url, hashIdx,
                 goneFrom, goneIter, pollIter, filled, submitted, loginClicked,
                 authClicked, authHref, offRoot, inputSeen, overlay, windowElapsed,
                 exc, pollObs,
                 initScripts, storage, doc, logVars, runVars, fnVars>>

Next ==
  \/ Launch \/ NewContext \/ NewPage \/ AddInitScript \/ GotoHome \/ HomeNews
  \/ GoneIter \/ NotReady \/ EarlyLogs
  \/ HashNav \/ HashNotFound \/ AuthTab \/ HashInput \/ LoginLink \/ NavReturn
  \/ CheckNotFound \/ CheckUserInput \/ WaitPass \/ FillUser \/ FillPass \/ Submit
  \/ AnchorLoc
  \/ PollHead \/ PollSample \/ PollUI \/ PollAnchor
  \/ FinalDisconnected \/ FinalBanner \/ FinalUI \/ FinalLogs \/ DecideStep
  \/ Catch \/ Finally

\* One attempt, for any credential and any site.
Spec == Init /\ [][Next]_vars

\* One attempt in which every automation call returns or times out: a step
\* that can be taken is taken.
SpecLive == Init /\ [][Next]_vars /\ WF_vars(Next)

\* ----------------------------------------------- the whole run (SpecRun)

\* The configurations a run is started with: ACCOUNTS_JSON and ACCOUNTS.
RunEnvs ==
  { [json |-> JsonUnset, raw |-> <<>>],
    [json |-> JsonInvalid, raw |-> <<"a", ":", "p">>],
    [json |-> JsonNotArray, raw |-> <<>>],
    [json |-> JsonArray(<<>>), raw |-> <<"a", ":", "p">>],
    [json |-> JsonArray(<<[user |-> <<>>, pass |-> <<"p">>]>>), raw |-> <<>>],
    [json |-> JsonArray(<<[user |-> <<" ", "a">>, pass |-> <<"p">>],
                          [user |-> <<"b">>, pass |-> <<>>]>>), raw |-> <<>>],
    [json |-> JsonUnset, raw |-> <<"a">>],
    [json |-> JsonUnset, raw |-> <<":", "p">>],
    [json |-> JsonUnset, raw |-> <<"(", ":", "p">>],
    [json |-> JsonUnset, raw |-> <<"a", ":", "p", NL, "b", ":", "q">>] }

\* The module has been loaded up to line 731; no attempt has been started.
InitLoad ==
  /\ pc = "idle"
  /\ user = <<>>
  /\ InitLocals
  /\ InitLogs
  /\ \E env \in RunEnvs : accountsJsonRaw = env.json /\ accountsRaw = env.raw
  /\ accountList = <<>>
  /\ mainPc = "load"
  /\ i = 1
  /\ results = <<>>
  /\ exitCode = Unset
  /\ notified = NotCalled
  /\ counts = Counts(<<>>)
  /\ InitFns

\* process.exit(1)
Exit1 ==
  /\ mainPc' = "exited"
  /\ exitCode' = 1
  /\ UNCHANGED accountList

\* const accountList = getAccountList(), lines 705-731: ACCOUNTS_JSON when
\* it is set, ACCOUNTS otherwise; the process exits when the list is empty.
GetAccountList ==
  /\ mainPc = "load"
  /\ IF accountsJsonRaw.kind # "unset"
     THEN IF accountsJsonRaw.kind = "invalid" THEN Exit1
          ELSE LET list == ParseAccountsJson(accountsJsonRaw)
               IN IF Len(list) > 0
                  THEN accountList' = list /\ mainPc' = "main" /\ UNCHANGED exitCode
                  ELSE Exit1
     ELSE IF accountsRaw = <<>> THEN Exit1
     ELSE LET list == ParseAccounts(accountsRaw)
          IN IF Len(list) = 0 THEN Exit1
             ELSE accountList' = list /\ mainPc' = "main" /\ UNCHANGED exitCode
  /\ UNCHANGED <<accountsJsonRaw, accountsRaw, i, results, notified, counts,
                 attemptVars, logVars, fnVars>>

\* main's loop, lines 1183-1187: loginWithAccount is called for credential i.
CallLogin ==
  /\ mainPc = "main"
  /\ i <= Len(accountList)
  /\ user' = accountList[i].user
  /\ pc' = "launch"
  /\ mainPc' = "attempt"
  /\ UNCHANGED <<loginHref, open, result, assigns, readyRet, navOk, url, hashIdx,
                 goneFrom, goneIter, pollIter, filled, submitted, loginClicked,
                 authClicked, authHref, offRoot, inputSeen, overlay, windowElapsed,
                 exc, pollObs, initScripts, storage, doc,
                 accountsJsonRaw, accountsRaw, accountList, i, results, exitCode,
                 notified, counts, logVars, fnVars>>

\* Lines 1187-1193: loginWithAccount has returned; its result is pushed, the
\* call's locals are gone, and after the delay the loop goes on.
MainPush ==
  /\ mainPc = "attempt"
  /\ pc = "returned"
  /\ results' = Append(results, [user |-> user, status |-> result.status])
  /\ i' = i + 1
  /\ mainPc' = "main"
  /\ pc' = "idle"
  /\ user' = <<>>
  /\ loginHref' = Unset
  /\ result' = InitResult
  /\ assigns' = 0
  /\ readyRet' = Unset
  /\ navOk' = Unset
  /\ url' = UrlBlank
  /\ hashIdx' = 0
  /\ goneFrom' = Unset
  /\ goneIter' = 0
  /\ pollIter' = 0
  /\ filled' = {}
  /\ submitted' = FALSE
  /\ loginClicked' = FALSE
  /\ authClicked' = {}
  /\ authHref' = Unset
  /\ offRoot' = FALSE
  /\ inputSeen' = FALSE
  /\ overlay' = Unset
  /\ windowElapsed' = FALSE
  /\ exc' = NoExc
  /\ pollObs' = NoPollObs
  /\ initScripts' = {}
  /\ doc' = NoDoc
  /\ UNCHANGED <<open, storage, accountsJsonRaw, accountsRaw, accountList, exitCode, notified, counts,
                 logVars, fnVars>>

\* Lines 1218-1221: loginWithAccount threw; main's promise rejects and the
\* handler exits the process.
MainThrew ==
  /\ mainPc = "attempt"
  /\ pc = "threw"
  /\ mainPc' = "exited"
  /\ exitCode' = 1
  /\ UNCHANGED <<accountsJsonRaw, accountsRaw, accountList, i, results, notified, counts,
                 attemptVars, logVars, fnVars>>

\* Lines 1196-1215 and sendTelegram: the summary is posted when a target is
\* configured (a failing post is caught), and the process ends.
SendSummaryStrict ==
  /\ mainPc = "main"
  /\ i > Len(accountList)
  /\ \E hasToken, hasChatId, postOk \in BOOLEAN :
       /\ notified' = SendTelegram(hasToken, hasChatId, postOk)
       /\ exitCode' = IF notified' = "no target" THEN 1 ELSE 0
  /\ counts' = Counts(results)
  /\ mainPc' = "exited"
  /\ UNCHANGED <<accountsJsonRaw, accountsRaw, accountList, i, results,
                 attemptVars, logVars, fnVars>>

SendSummary ==
  /\ mainPc = "main"
  /\ i > Len(accountList)
  /\ \E hasToken, hasChatId, postOk \in BOOLEAN :
       notified' = SendTelegram(hasToken, hasChatId, postOk)
  /\ counts' = Counts(results)
  /\ mainPc' = "exited"
  /\ exitCode' = 0
  /\ UNCHANGED <<accountsJsonRaw, accountsRaw, accountList, i, results,
                 attemptVars, logVars, fnVars>>

NextRun ==
  \/ GetAccountList \/ CallLogin \/ MainPush \/ MainThrew \/ SendSummary
  \/ Next

\* The whole process, from the configuration to its exit.
SpecRun == InitLoad /\ [][NextRun]_vars

\* --------------------------------------------------------- claims: the attempt

Returned == pc = "returned"

\* C1: failure dominance.  When loginWithAccount has returned and the evidence
\* it wrote holds topInvalid or a log verdict FAIL_INVALID, the status is not
\* SUCCESS and result.success is false, whatever the other evidence is.
C1_FailureDominance ==
  (Returned /\ (result.evidence.topInvalid \/ result.evidence.logsVerdict = "FAIL_INVALID"))
    => (result.status # "SUCCESS" /\ result.success = FALSE)

\* Failure and success evidence together, resolved to FAIL_INVALID.
C1_Witness ==
  /\ Returned
  /\ result.evidence.topInvalid
  /\ result.evidence.uiMyDomains
  /\ result.evidence.logsVerdict = "SUCCESS"
  /\ result.status = "FAIL_INVALID"
  /\ result.success = FALSE

\* The five-step priority rule, as the specification words it: the status
\* and the reasons that may go with it.
PriorityRule(ev) ==
  IF ev.topInvalid
  THEN [status |-> "FAIL_INVALID", reasons |-> {"ui: top Invalid credentials"}]
  ELSE IF ev.logsVerdict = "FAIL_INVALID"
  THEN [status |-> "FAIL_INVALID", reasons |-> {"logs: Error: Invalid credentials"}]
  ELSE IF ev.uiMyDomains \/ ev.uiOwnerText
  THEN [status |-> "SUCCESS", reasons |-> {"ui: My domains", "ui: exclusive owner"}]
  ELSE IF ev.logsVerdict = "SUCCESS"
  THEN [status |-> "SUCCESS", reasons |-> {"logs: authd + dnsmanagerd"}]
  ELSE [status |-> "FAIL_UNKNOWN",
        reasons |-> {"unknown: still disconnected", "unknown: no decisive signal"}]

\* C2: the step that decides, taken from any final evidence snapshot, writes
\* the status of the five-step priority rule with a reason of the same step
\* (and success exactly for SUCCESS); a log SUCCESS with no UI indicator and
\* no failure evidence gives SUCCESS.
C2_PriorityRule ==
  [][pc = "decide" =>
       /\ result'.status = PriorityRule(result.evidence).status
       /\ result'.reason \in PriorityRule(result.evidence).reasons
       /\ result'.success = (result'.status = "SUCCESS")
       /\ result'.evidence = result.evidence]_vars

\* A log SUCCESS alone, resolved to SUCCESS with the log reason.
C2_Witness ==
  /\ Returned
  /\ ~result.evidence.topInvalid
  /\ ~result.evidence.uiMyDomains /\ ~result.evidence.uiOwnerText
  /\ result.evidence.logsVerdict = "SUCCESS"
  /\ result.status = "SUCCESS"
  /\ result.reason = "logs: authd + dnsmanagerd"

\* C3: every call that returns has a status among the four verdicts, assigned
\* exactly once.
C3_StatusAssignedOnce ==
  Returned => (result.status \in Statuses /\ assigns = 1)

\* C7: when the Login link's href is a server path without a fragment, the
\* link is not clicked and gotoLoginPage takes the page to no server path;
\* and a route alias that showed the username input makes it return ok true.
C7_PathHrefRouter ==
  /\ loginHref = HrefPath => (~loginClicked /\ ~offRoot)
  /\ (pc = "navReturn" /\ inputSeen) => navOk = "true"

C9_NavFailureNeverCredential ==
  (Returned /\ navOk = "false") => result.status \notin {"FAIL_INVALID", "SUCCESS"}

\* C10: when waitForHomeReady has returned false, loginWithAccount returns
\* FAIL_UNKNOWN and has neither filled an input nor clicked Validate.
C10_NotReadyIsUnknown ==
  (Returned /\ readyRet = "false") =>
    (result.status = "FAIL_UNKNOWN" /\ filled = {} /\ ~submitted)

\* No failure banner, no UI success indicator and no decisive log verdict in
\* the evidence.
NoDecisiveEvidence(ev) ==
  /\ ~ev.topInvalid
  /\ ~ev.uiMyDomains /\ ~ev.uiOwnerText
  /\ ev.logsVerdict \in {"NONE", "UNKNOWN"}

C12_NoExceptionEscapes ==
  /\ pc # "threw"
  /\ mainPc \in {"main", "exited"} /\ accountList # <<>> => Len(results) = i - 1

\* C13: session teardown.  When an attempt has ended, by a return or by an
\* exception, none of its page, context and browser is open.
C13_SessionClosed ==
  pc \in {"returned", "threw"} => {s \in open : s[1] = i} = {}

\* C14: strict sequencing.  At most one browser is open at any moment and
\* every open session belongs to the one attempt in progress; while the
\* attempt for credential i is in progress the results of the i - 1 earlier
\* ones have been pushed; and at the launch for credential i no session of
\* an earlier attempt is open.
C14_StrictSequencing ==
  /\ Cardinality({s \in open : s[2] = "browser"}) <= 1
  /\ \A s \in open : s[1] = i /\ pc # "idle"
  /\ pc # "idle" => Len(results) = i - 1
  /\ pc = "launch" => open = {}

\* The launch for the second credential: the first one's result is pushed
\* and its session is closed.
C14_Witness ==
  /\ pc = "launch"
  /\ i = 2
  /\ Len(results) = 1
  /\ open = {}

\* C15: best-effort channels.  No step of the evidence sampling (a polling
\* iteration's sample, the final banner read, the final log read) goes to
\* the exception path.
C15_BestEffortChannels ==
  [][(pc = "pollSample" \/ pc = "finalBanner" \/ pc = "finalLogs") => pc' # "catch"]_vars

\* The records of ACCOUNTS as its format documents them: one a line, or
\* separated by ',' or ';' when the text holds no newline.
Pieces(t) ==
  IF \E k \in 1..Len(t) : t[k] = NL THEN Split(t, {NL})
  ELSE Split(t, {",", ";"})

\* A record 'user:secret' with a user and a secret.
WellFormed(piece) ==
  \E k \in 1..Len(piece) :
    /\ piece[k] = ":"
    /\ \A j \in 1..(k - 1) : piece[j] # ":"
    /\ Trim(SubSeq(piece, 1, k - 1)) # <<>>
    /\ Trim(SubSeq(piece, k + 1, Len(piece))) # <<>>

\* No credential resolves from the configuration: both variables unset,
\* ACCOUNTS_JSON set but no valid JSON or without a usable record, or
\* ACCOUNTS alone without a well-formed record.
NoCredential ==
  \/ accountsJsonRaw = JsonUnset /\ accountsRaw = <<>>
  \/ accountsJsonRaw.kind \in {"invalid", "notArray"}
  \/ /\ accountsJsonRaw.kind = "array"
     /\ ~\E k \in 1..Len(accountsJsonRaw.items) :
           /\ Trim(accountsJsonRaw.items[k].user) # <<>>
           /\ accountsJsonRaw.items[k].pass # <<>>
  \/ /\ accountsJsonRaw = JsonUnset
     /\ ~\E k \in 1..Len(Pieces(Trim(accountsRaw))) :
           WellFormed(Pieces(Trim(accountsRaw))[k])

\* C16: configuration error.  When no credential resolves, the process has
\* exited with status 1 once getAccountList has run, no attempt was started
\* (no browser launched, no result pushed) and no notification was sent.
C16_ConfigErrorExits ==
  (mainPc # "load" /\ NoCredential) =>
    /\ mainPc = "exited" /\ exitCode = 1
    /\ accountList = <<>>
    /\ pc = "idle" /\ open = {} /\ results = <<>>
    /\ notified = NotCalled

\* ACCOUNTS_JSON is an array without a usable record while ACCOUNTS holds a
\* good one: the process has exited with status 1.
C16_Witness ==
  /\ mainPc = "exited"
  /\ exitCode = 1
  /\ accountsJsonRaw.kind = "array"
  /\ WellFormed(accountsRaw)
  /\ pc = "idle" /\ results = <<>>

\* C17: normal termination.  When a credential resolved, the process ends
\* with every credential processed and without a non-zero exit.
C17_NormalTermination ==
  (mainPc = "exited" /\ accountList # <<>>) =>
    (exitCode = 0 /\ Len(results) = Len(accountList))

\* ------------------------------------------------- claims: the pure functions

\* The secrets of the records 'user:secret' among the lines from k on, each
\* the characters after the line's first ':' up to the line's end.
RECURSIVE LineSecretsFrom(_, _)
LineSecretsFrom(lines, k) ==
  IF k > Len(lines) THEN <<>>
  ELSE LET line == lines[k]
           colons == {n \in 1..Len(line) : line[n] = ":"}
           first == CHOOSE n \in colons : \A j \in colons : n <= j
       IN IF colons # {} /\ Trim(SubSeq(line, 1, first - 1)) # <<>> /\ first < Len(line)
          THEN <<SubSeq(line, first + 1, Len(line))>> \o LineSecretsFrom(lines, k + 1)
          ELSE LineSecretsFrom(lines, k + 1)

\* C18: credential parsing.  For a text whose records are separated by
\* newlines (a newline stands between two of its non-blank characters),
\* parseAccounts returns, record by record, the secret that is exactly the
\* characters after the first ':' of the record's line up to the end of that
\* line, with any ':', ',' and trailing spaces in it.
C18_SecretVerbatim ==
  (parsed.called /\ \E k \in 1..Len(Trim(raw)) : Trim(raw)[k] = NL) =>
    [k \in 1..Len(parsed.list) |-> parsed.list[k].pass]
      = LineSecretsFrom(Split(raw, {NL}), 1)

\* C19: anchor pattern escaping.  For every identity the pattern of line
\* 1058 is built without a SyntaxError, and it matches the anchor line of an
\* identity exactly when that identity is the one it was built for.
C19_AnchorPatternLiteral ==
  anchorTest.called =>
    (anchorTest.built /\ (anchorTest.matches <=> lineId = identity))

C22_MissingInputIsUnknown ==
  (Returned /\ result.reason \in {"login page: no username input",
                                  "script exception: passInput.waitFor"})
    => result.status = "FAIL_UNKNOWN"

\* C23: not-found login view.  Once the page reached by gotoLoginPage has
\* been found to be a not-found page, the attempt's status is FAIL_UNKNOWN and
\* stays so, and no input is filled and no submit is made.
C23_NotFoundIsUnknown ==
  [][result.reason = "login page: 404 Not Found"
       => (result'.status = "FAIL_UNKNOWN" /\ filled' = {} /\ ~submitted')]_vars

\* C24: submit click failure.  When the click on the submit control fails,
\* the exception reaches the catch block (and the attempt is reported as
\* ERROR); the polling loop is not entered.
C24_ClickFailureIsError ==
  [][(pc = "submit" /\ ~submitted') => pc' = "catch"]_vars

\* C27: waitForDisconnectedGone only reads the overlay's visibility and
\* sleeps: from each of its three call sites it leaves the page's address,
\* the form, the clicks made, the open browser objects and the result as
\* they are.
C27_GoneIsPassive ==
  [][pc = "gone" => /\ url' = url
                    /\ filled' = filled
                    /\ submitted' = submitted
                    /\ loginClicked' = loginClicked
                    /\ authClicked' = authClicked
                    /\ open' = open
                    /\ result' = result]_vars

\* waitForDisconnectedGone has run to its end at the home page and after the
\* router, and in the polling loop it has read the overlay once, found it up
\* and slept.
C27_Witness ==
  /\ pc = "gone"
  /\ goneFrom = "poll"
  /\ goneIter = 1
  /\ readyRet = Bool(TRUE)
  /\ submitted
  /\ url # Unset

\* C28: polling-loop exit.  After an iteration of the polling loop has
\* sampled, the loop has ended early exactly when that iteration found the
\* top banner, a UI success indicator, or the log stream in a decisive state
\* (SUCCESS or FAIL_INVALID).
C28_LoopExitsOnDecisive ==
  (pollObs.sampled /\ (pc = "settle" \/ pc = "poll"))
    => ((pc = "settle" /\ ~windowElapsed)
          <=> \/ pollObs.topInvalid
              \/ pollObs.uiSuccess
              \/ pollObs.logs \in {"SUCCESS", "FAIL_INVALID"})

\* C29: final-sample determinism.  No step of the polling loop writes the
\* result; the evidence is still as constructed when the settle delay
\* starts; and the decision sets the status, the reason and the success flag
\* to what Decide gives for the evidence of the final sample, which it leaves
\* as it is.
C29_FinalSampleOnly ==
  [][ /\ (pc \in {"poll", "pollSample", "pollUI", "pollAnchor"}
           \/ (pc = "gone" /\ goneFrom = "poll"))
          => result' = result
      /\ pc = "settle" => result.evidence = InitResult.evidence
      /\ pc = "decide" =>
           /\ result'.evidence = result.evidence
           /\ result'.status = Decide(result.evidence).status
           /\ result'.reason = Decide(result.evidence).reason
           /\ result'.success = Decide(result.evidence).success ]_vars

\* The polling loop ended early, so its last sample found the banner, a UI
\* success indicator or the anchor; the final sample found none of them, and
\* the attempt returned FAIL_UNKNOWN.
C29_Witness ==
  /\ Returned
  /\ ~windowElapsed
  /\ "password" \in filled
  /\ ~result.evidence.topInvalid
  /\ ~result.evidence.uiMyDomains
  /\ ~result.evidence.uiOwnerText
  /\ result.evidence.logsVerdict = "NONE"
  /\ result.status = "FAIL_UNKNOWN"
  /\ result.reason = "unknown: no decisive signal"

\* C30: router order.  When gotoLoginPage turns to the Login link, it has
\* not tried a route alias yet.
C30_LoginLinkFirst ==
  pc = "loginLink" => hashIdx = 0

\* ----------------------------------------------------- claims: the notifier

\* C25: message truncation.  The text sendTelegram posts is the message
\* itself when the message has at most 3800 characters; otherwise it is the
\* message's first 3800 characters followed by the truncation marker.  Its
\* length never exceeds 3800 plus the marker's length, which is below 4096.
C25_Truncation ==
  notified \in {"sent", "post failed"} =>
    /\ Len(message) <= 3800 => text = message
    /\ Len(message) > 3800 =>
         /\ Len(text) = 3800 + Len(TruncMarker)
         /\ \A k \in 1..3800 : text[k] = message[k]
         /\ \A k \in 1..Len(TruncMarker) : text[3800 + k] = TruncMarker[k]
    /\ Len(text) <= 3800 + Len(TruncMarker)
    /\ 3800 + Len(TruncMarker) < 4096

\* A message of 3801 characters was posted as its first 3800 characters and
\* the marker; the last character, the marked one, was dropped.
C25_Witness ==
  /\ notified = "sent"
  /\ Len(message) = 3801
  /\ message[3801] = "#"
  /\ Len(text) = 3816
  /\ text[3800] = "x"
  /\ text[3816] = ")"

\* C26: no notification target.  When the token or the chat id is not set,
\* sendTelegram returns without posting and without an error: the run has
\* then attempted every credential of the list and the process ends with
\* exit code 0.
C26_NoTargetIsNoOp ==
  notified = "no target" =>
    /\ mainPc = "exited"
    /\ exitCode = 0
    /\ Len(accountList) > 0
    /\ Len(results) = Len(accountList)

\* A run over two credentials with no notification target: both attempts
\* were made and the process ended normally.
C26_Witness ==
  /\ notified = "no target"
  /\ mainPc = "exited"
  /\ exitCode = 0
  /\ Len(accountList) = 2
  /\ Len(results) = 2

\* ------------------------------------------------ claims: the evidence sample

C31_ScopedClick ==
  clickRet \in {"form->Validate", "panel->Validate", "global->Validate"} =>
    LET inForm == clickPage.form = "both" /\ clickPage.formBtn
        inPanel == clickPage.panel /\ clickPage.panelBtn
    IN /\ clickRet = "form->Validate" <=> inForm
       /\ clickRet = "panel->Validate" <=> (~inForm /\ inPanel)
       /\ clickRet = "global->Validate" <=> (~inForm /\ ~inPanel)

\* ------------------------------------------------- claims: storage isolation

\* C32: storage isolation ordering.  In every attempt of a run, whenever a
\* document has been loaded the storage-clearing init script was registered
\* before it, and the document's own scripts found the local and session
\* storage empty, whatever the site wrote earlier in this attempt or in an
\* earlier one.
C32_StorageIsolation ==
  doc.loaded => ("clearStorage" \in initScripts /\ doc.storage = {})

\* The second attempt of a run whose first attempt ended in SUCCESS: its
\* page has gone back to the root for a route alias, so a document was loaded
\* after the site had written to the storage, and that document found the
\* storage empty.
C32_Witness ==
  /\ i = 2
  /\ Len(results) = 1
  /\ results[1].status = "SUCCESS"
  /\ pc = "hashNotFound"
  /\ doc.loaded
  /\ doc.storage = {}
  /\ storage = {"visit"}
  /\ url = WithHash(UrlRoot)

\* ---------------------------------------------------- claims: stage ordering

C34_AttemptReturns ==
  <>Returned

\* ------------------------------------------------------ claims: aggregation

\* C35: aggregation invariant.  When main has finished its loop the results
\* list holds one entry per credential, in the order of the credentials, and
\* the four tallies of the summary (SUCCESS, FAIL_INVALID, FAIL_UNKNOWN,
\* ERROR) add up to the number of credentials.
C35_Aggregation ==
  LET listed ==
        /\ Len(results) = Len(accountList)
        /\ \A k \in 1..Len(accountList) : results[k].user = accountList[k].user
  IN /\ (mainPc = "main" /\ i > Len(accountList)) => listed
     /\ notified # NotCalled =>
          /\ listed
          /\ counts["SUCCESS"] + counts["FAIL_INVALID"] + counts["FAIL_UNKNOWN"]
               + counts["ERROR"] = Len(accountList)

\* A run over the credentials of a and b: the attempt for a ended in ERROR,
\* the one for b in SUCCESS, and the summary tallies one of each.
C35_Witness ==
  /\ notified # NotCalled
  /\ Len(accountList) = 2
  /\ Len(results) = 2
  /\ results[1] = [user |-> <<"a">>, status |-> "ERROR"]
  /\ results[2] = [user |-> <<"b">>, status |-> "SUCCESS"]
  /\ counts["ERROR"] = 1
  /\ counts["SUCCESS"] = 1
  /\ counts["FAIL_INVALID"] = 0
  /\ counts["FAIL_UNKNOWN"] = 0

\* ------------------------------------------- claims: notification ordering

\* C36: notification ordering.  A run that a configuration error ends never
\* calls sendTelegram; every other run has called it once the process has
\* ended, after the last attempt returned with its session closed; the
\* outcome of the call is never written twice, and a send that failed leaves
\* the exit code at 0.
C36_NotifiedOnce ==
  /\ [](notified # NotCalled =>
          /\ accountList # <<>>
          /\ Len(results) = Len(accountList)
          /\ pc = "idle"
          /\ open = {}
          /\ exitCode = 0)
  /\ []((mainPc = "exited" /\ accountList = <<>>) => notified = NotCalled)
  /\ []((mainPc = "exited" /\ accountList # <<>>) => notified # NotCalled)
  /\ [][notified # NotCalled => notified' = notified]_vars

\* ------------------------------------------------ claims: result consistency

\* C37: result consistency.  At every return of loginWithAccount the
\* result's success flag is true exactly when its status is SUCCESS.
C37_SuccessIffStatus ==
  Returned => (result.success <=> result.status = "SUCCESS")

\* An attempt returned SUCCESS on the log verdict alone, with the flag set.
C37_Witness ==
  /\ Returned
  /\ result.status = "SUCCESS"
  /\ result.success
  /\ result.reason = "logs: authd + dnsmanagerd"
  /\ ~result.evidence.uiMyDomains
  /\ ~result.evidence.uiOwnerText

\* ------------------------------------- claims: the log verdict under appends

\* The lines a later text has after an earlier one.
Appended(before, after) == SubSeq(after, Len(before) + 1, Len(after))

\* The later text is the earlier one with lines added at its end.
IsExtension(before, after) ==
  /\ Len(before) <= Len(after)
  /\ SubSeq(after, 1, Len(before)) = before

\* C38: log verdict under appends.  On an append-only transcript, once
\* getLoginVerdictFromLogs has reported FAIL_INVALID for an identity, a later
\* call for that identity reports FAIL_INVALID again when the lines appended
\* in between hold no anchor for it; and once a call has found an anchor, no
\* later call reports NONE.
C38_VerdictUnderAppends ==
  [][/\ (/\ logs.verdict = "FAIL_INVALID"
         /\ logs'.user = logs.user
         /\ IsExtension(logs.bodyText, logs'.bodyText)
         /\ ~HasAnchor(Appended(logs.bodyText, logs'.bodyText), logs.user))
        => logs'.verdict = "FAIL_INVALID"
     /\ (/\ logs.verdict \in {"FAIL_INVALID", "SUCCESS", "UNKNOWN"}
         /\ logs'.user = logs.user
         /\ IsExtension(logs.bodyText, logs'.bodyText))
        => logs'.verdict # "NONE"]_vars

\* A call reported FAIL_INVALID on a transcript in which both success lines
\* follow the failure line of the identity's only anchor.
C38_Witness ==
  /\ logs.verdict = "FAIL_INVALID"
  /\ logs.bodyText = body
  /\ body = <<Anchor(logs.user), LineInvalid, LineAuthd, LineDns>>

\* --------------------------------- claims: the single-credential script

\* C39: teardown in the single-credential script.  When the process ends
\* after the browser was launched, on an accepted login as on a challenge,
\* an auth-error fingerprint or any exception, the browser has been closed.
C39_ClosedBeforeExit ==
  (scriptPc \in {"exited", "rejected"} /\ browser # "none") => browser = "closed"

====
